---------------------------- MODULE Spec2Model ----------------------------
(***************************************************************************)
(* A model of the command authorization engine of src/agent/security.py    *)
(* (class CommandValidator).  A command is a sequence of one-character     *)
(* strings; every stage of the validator is an operator computed the way   *)
(* the Python code computes it (shlex.split, re.split, re.findall,         *)
(* re.search, os.path.abspath, str.startswith), so that the two public     *)
(* entry points validate and validate_with_compound_handling can be        *)
(* checked against what the specification says of them.                    *)
(***************************************************************************)
EXTENDS Naturals, Sequences, FiniteSets

VARIABLES
    command,            \* the command string handed to the validator
    allowed_commands,   \* CommandValidator.allowed_commands (a list; <<>> = no whitelist)
    blocked_commands,   \* CommandValidator.blocked_commands (an ordered list of strings)
    sandbox_dir,        \* CommandValidator.sandbox_dir (an absolute path string)
    event_logger,       \* event_logger._global_event_logger is set (TRUE) or None (FALSE)
    called,             \* the function applied to `command` ("none" before the call)
    result,             \* the value that function returned
    raised,             \* the exception the call ended with ("" when it returned)
    events,             \* the events EventLogger.emit recorded, in order
    pc,                 \* the executor's position: "idle", "checked" or "done"
    check_result,       \* the executor's local check_result (Unset before validation)
    spawns,             \* the subprocess.run calls made, in order
    hash_order,         \* the order in which this interpreter iterates the set
                        \* literal allowed_processes (str hashes are salted per process)
    PROJECT_DIR,        \* os.environ["PROJECT_DIR"] (None when it is not set)
    _global_validator,  \* security._global_validator is set (TRUE) or None (FALSE);
                        \* when set, the validator's fields are the three above
    agents,             \* self.project_dir of the CodingAgent objects constructed
    feature_list,       \* the feature of feature_list.json (None when there is no file)
    run                 \* CodingAgent.run: its position and its local variables

vars == <<command, allowed_commands, blocked_commands, sandbox_dir,
          event_logger, called, result, raised, events, pc, check_result, spawns,
          hash_order, PROJECT_DIR, _global_validator, agents, feature_list, run>>

-----------------------------------------------------------------------------
(* Strings *)

\* Optional[...]: None is the empty sequence and a value x is <<x>>
None == <<>>

Some(x) == <<x>>

\* the backquote character (the module's lexer accepts none in a string)
Backquote == "backquote"

ReWhitespace == {" ", "\t", "\n", "\r", "\f"}

ShlexWhitespace == {" ", "\t", "\r", "\n"}

RECURSIVE Flatten(_)
Flatten(ss) == IF ss = <<>> THEN <<>> ELSE Head(ss) \o Flatten(Tail(ss))

Range(s) == {s[k] : k \in 1..Len(s)}

Slice(s, i, j) == IF j <= i THEN <<>> ELSE SubSeq(s, i, j - 1)

LowerOf(c) ==
    CASE c = "A" -> "a" [] c = "B" -> "b" [] c = "C" -> "c" [] c = "D" -> "d"
      [] c = "E" -> "e" [] c = "F" -> "f" [] c = "G" -> "g" [] c = "H" -> "h"
      [] c = "I" -> "i" [] c = "J" -> "j" [] c = "K" -> "k" [] c = "L" -> "l"
      [] c = "M" -> "m" [] c = "N" -> "n" [] c = "O" -> "o" [] c = "P" -> "p"
      [] c = "Q" -> "q" [] c = "R" -> "r" [] c = "S" -> "s" [] c = "T" -> "t"
      [] c = "U" -> "u" [] c = "V" -> "v" [] c = "W" -> "w" [] c = "X" -> "x"
      [] c = "Y" -> "y" [] c = "Z" -> "z" [] OTHER -> c

StartsWith(s, p) ==
    /\ Len(p) <= Len(s)
    /\ \A k \in 1..Len(p) : s[k] = p[k]

Contains(s, p) ==
    \E i \in 1..(Len(s) + 1) :
        /\ i + Len(p) - 1 <= Len(s)
        /\ \A k \in 1..Len(p) : s[i + k - 1] = p[k]

RECURSIVE LStripFrom(_, _)
LStripFrom(s, i) ==
    IF i <= Len(s) /\ s[i] \in ReWhitespace THEN LStripFrom(s, i + 1) ELSE i

RECURSIVE RStripFrom(_, _)
RStripFrom(s, j) ==
    IF j >= 1 /\ s[j] \in ReWhitespace THEN RStripFrom(s, j - 1) ELSE j

\* str.strip()
Strip(s) == Slice(s, LStripFrom(s, 1), RStripFrom(s, Len(s)) + 1)

RECURSIVE LastSlash(_, _)
LastSlash(s, j) == IF j >= 1 /\ s[j] # "/" THEN LastSlash(s, j - 1) ELSE j

\* os.path.basename
Basename(s) == Slice(s, LastSlash(s, Len(s)) + 1, Len(s) + 1)

-----------------------------------------------------------------------------
(* Regular expressions (the subset of Python's re the validator uses).      *)
(* A position is the index of the next character to read, 1..Len(s)+1.      *)
(* Ends(r, s, i, ic) is the set of positions at which a match of r that     *)
(* starts at i can end; ic is re.IGNORECASE.                                *)

Lit(str)    == [t |-> "lit", s |-> str]
Cls(set)    == [t |-> "cls", set |-> set, neg |-> FALSE]
NotCls(set) == [t |-> "cls", set |-> set, neg |-> TRUE]
Dot         == [t |-> "cls", set |-> {"\n"}, neg |-> TRUE]
Cat(rs)     == [t |-> "cat", rs |-> rs]
Alt(rs)     == [t |-> "alt", rs |-> rs]
Star(r)     == [t |-> "star", r |-> r]
Plus(r)     == [t |-> "cat", rs |-> <<r, [t |-> "star", r |-> r]>>]
Opt(r)      == [t |-> "alt", rs |-> <<r, [t |-> "lit", s |-> <<>>]>>]
Bol         == [t |-> "bol"]
Eol         == [t |-> "eol"]
NotBehind(set) == [t |-> "nlb", set |-> set]
NotAhead(set)  == [t |-> "nla", set |-> set]

RECURSIVE Ends(_, _, _, _)
RECURSIVE EndsCat(_, _, _, _, _)
RECURSIVE EndsStar(_, _, _, _)

Ends(r, s, i, ic) ==
    CASE r.t = "lit" ->
            IF /\ i + Len(r.s) - 1 <= Len(s)
               /\ \A k \in 1..Len(r.s) :
                    IF ic THEN LowerOf(s[i + k - 1]) = LowerOf(r.s[k])
                          ELSE s[i + k - 1] = r.s[k]
            THEN {i + Len(r.s)} ELSE {}
      [] r.t = "cls" ->
            IF i <= Len(s) /\ ((s[i] \in r.set) # r.neg) THEN {i + 1} ELSE {}
      [] r.t = "cat" -> EndsCat(r.rs, 1, s, {i}, ic)
      [] r.t = "alt" -> UNION {Ends(r.rs[k], s, i, ic) : k \in 1..Len(r.rs)}
      [] r.t = "star" -> EndsStar(r.r, s, {i}, ic)
      [] r.t = "bol" -> IF i = 1 THEN {i} ELSE {}
      [] r.t = "eol" ->
            IF i = Len(s) + 1 \/ (i = Len(s) /\ s[i] = "\n") THEN {i} ELSE {}
      [] r.t = "nlb" -> IF i > 1 /\ s[i - 1] \in r.set THEN {} ELSE {i}
      [] r.t = "nla" -> IF i <= Len(s) /\ s[i] \in r.set THEN {} ELSE {i}

EndsCat(rs, k, s, I, ic) ==
    IF k > Len(rs) \/ I = {} THEN I
    ELSE EndsCat(rs, k + 1, s, UNION {Ends(rs[k], s, i, ic) : i \in I}, ic)

EndsStar(r, s, I, ic) ==
    LET J == I \cup UNION {Ends(r, s, i, ic) : i \in I}
    IN  IF J = I THEN I ELSE EndsStar(r, s, J, ic)

Max(S) == CHOOSE x \in S : \A y \in S : y <= x

Min(S) == CHOOSE x \in S : \A y \in S : x <= y

\* the positions at which a match of r can start
MatchStarts(r, s, from, ic) == {i \in from..(Len(s) + 1) : Ends(r, s, i, ic) # {}}

\* re.search(r, s) is not None
Search(r, s, ic) == \E i \in 1..(Len(s) + 1) : Ends(r, s, i, ic) # {}

-----------------------------------------------------------------------------
(* shlex.split(s): shlex.shlex(s, posix=True) with whitespace_split = True   *)
(* and no commenters.  The token reader of the standard library, one         *)
(* character at a time: st.state is " " (between tokens), "a" (in a word),   *)
(* a quote character (in a quoted string) or "\\" (after a backslash, with   *)
(* st.escapedstate the state to return to).                                  *)

ShlexQuotes == {"'", "\""}

ShlexEscape == {"\\"}

ShlexEscapedQuotes == {"\""}

ShlexError(msg) == [ok |-> FALSE, tokens |-> <<>>, error |-> msg]

ShlexEmit(st) ==
    IF st.token # <<>> \/ st.quoted
    THEN [st EXCEPT !.tokens = Append(st.tokens, st.token),
                    !.token = <<>>, !.quoted = FALSE]
    ELSE st

ShlexStep(st, c) ==
    CASE st.state = " " ->
            IF c \in ShlexWhitespace THEN ShlexEmit(st)
            ELSE IF c \in ShlexEscape
                 THEN [st EXCEPT !.escapedstate = "a", !.state = c]
            ELSE IF c \in ShlexQuotes THEN [st EXCEPT !.state = c]
            ELSE [st EXCEPT !.token = <<c>>, !.state = "a"]
      [] st.state \in ShlexQuotes ->
            IF c = st.state THEN [st EXCEPT !.state = "a", !.quoted = TRUE]
            ELSE IF c \in ShlexEscape /\ st.state \in ShlexEscapedQuotes
                 THEN [st EXCEPT !.escapedstate = st.state, !.state = c,
                                 !.quoted = TRUE]
            ELSE [st EXCEPT !.token = Append(st.token, c), !.quoted = TRUE]
      [] st.state \in ShlexEscape ->
            LET keep == /\ st.escapedstate \in ShlexQuotes
                        /\ c # st.state
                        /\ c # st.escapedstate
            IN  [st EXCEPT !.token = (IF keep THEN Append(st.token, st.state)
                                              ELSE st.token) \o <<c>>,
                           !.state = st.escapedstate]
      [] OTHER ->
            IF c \in ShlexWhitespace THEN [ShlexEmit(st) EXCEPT !.state = " "]
            ELSE IF c \in ShlexQuotes THEN [st EXCEPT !.state = c]
            ELSE IF c \in ShlexEscape
                 THEN [st EXCEPT !.escapedstate = "a", !.state = c]
            ELSE [st EXCEPT !.token = Append(st.token, c)]

RECURSIVE ShlexRun(_, _, _)
ShlexRun(s, i, st) ==
    IF i > Len(s)
    THEN IF st.state \in ShlexQuotes THEN ShlexError("No closing quotation")
         ELSE IF st.state \in ShlexEscape THEN ShlexError("No escaped character")
         ELSE [ok |-> TRUE, tokens |-> ShlexEmit(st).tokens, error |-> ""]
    ELSE ShlexRun(s, i + 1, ShlexStep(st, s[i]))

\* [ok |-> TRUE, tokens |-> the words] or [ok |-> FALSE, error |-> the ValueError]
shlex_split(s) ==
    ShlexRun(s, 1, [state |-> " ", escapedstate |-> " ", token |-> <<>>,
                    quoted |-> FALSE, tokens |-> <<>>])

-----------------------------------------------------------------------------
(* os.path (posixpath) *)

RECURSIVE SplitOn(_, _, _, _)
\* s.split(sep) for a one-character sep, from position i with `cur` collected
SplitOn(s, sep, i, cur) ==
    IF i > Len(s) THEN <<cur>>
    ELSE IF s[i] = sep THEN <<cur>> \o SplitOn(s, sep, i + 1, <<>>)
    ELSE SplitOn(s, sep, i + 1, Append(cur, s[i]))

RECURSIVE NormComps(_, _, _, _)
\* the component loop of posixpath.normpath
NormComps(comps, k, initial_slashes, new_comps) ==
    IF k > Len(comps) THEN new_comps
    ELSE LET comp == comps[k]
             n == Len(new_comps)
         IN  IF comp = <<>> \/ comp = <<".">>
             THEN NormComps(comps, k + 1, initial_slashes, new_comps)
             ELSE IF \/ comp # <<".", ".">>
                     \/ (initial_slashes = 0 /\ n = 0)
                     \/ (n > 0 /\ new_comps[n] = <<".", ".">>)
             THEN NormComps(comps, k + 1, initial_slashes, Append(new_comps, comp))
             ELSE IF n > 0
             THEN NormComps(comps, k + 1, initial_slashes, SubSeq(new_comps, 1, n - 1))
             ELSE NormComps(comps, k + 1, initial_slashes, new_comps)

RECURSIVE JoinWith(_, _)
\* sep.join(comps) for sep = "/"
JoinWith(comps, k) ==
    IF k > Len(comps) THEN <<>>
    ELSE (IF k > 1 THEN <<"/">> ELSE <<>>) \o comps[k] \o JoinWith(comps, k + 1)

\* posixpath.normpath: [initial_slashes, comps]; two leading slashes are kept,
\* one or three and more become one
NormParts(path) ==
    LET initial_slashes ==
            IF ~StartsWith(path, <<"/">>) THEN 0
            ELSE IF StartsWith(path, <<"/", "/">>) /\ ~StartsWith(path, <<"/", "/", "/">>)
                 THEN 2 ELSE 1
    IN  [initial_slashes |-> initial_slashes,
         comps |-> NormComps(SplitOn(path, "/", 1, <<>>), 1, initial_slashes, <<>>)]

normpath(path) ==
    LET p == NormParts(path)
        body == JoinWith(p.comps, 1)
        out == [k \in 1..p.initial_slashes |-> "/"] \o body
    IN  IF path = <<>> \/ out = <<>> THEN <<".">> ELSE out

\* the relative path joined to nothing, so resolved without the sandbox root
path_join_without_base(a, b) == b

\* posixpath.join(a, b)
path_join(a, b) ==
    IF StartsWith(b, <<"/">>) THEN b
    ELSE IF a = <<>> \/ a[Len(a)] = "/" THEN a \o b
    ELSE a \o <<"/">> \o b

\* os.path.abspath of an absolute path (the working directory is not consulted)
abspath(path) == normpath(path)

-----------------------------------------------------------------------------
(* config.py *)

\* Config.ALLOWED_COMMANDS: empty, every command not blacklisted is allowed
ALLOWED_COMMANDS == <<>>

\* Config.BLOCKED_COMMANDS
BLOCKED_COMMANDS == <<
        <<"r", "m", " ", "-", "r", "f", " ", "/">>,
        <<"r", "m", " ", "-", "r", "f", " ", "/", "*">>,
        <<"m", "k", "f", "s">>,
        <<"d", "d", " ", "i", "f", "=">>,
        <<">", " ", "/", "d", "e", "v", "/", "s", "d">>,
        <<"c", "h", "m", "o", "d", " ", "-", "R", " ", "7", "7", "7", " ", "/">>,
        <<"c", "h", "o", "w", "n", " ", "-", "R">>,
        <<":", "(", ")", "{", " ", ":", "|", ":", "&", " ", "}", ";", ":">>,
        <<"s", "h", "u", "t", "d", "o", "w", "n">>,
        <<"r", "e", "b", "o", "o", "t">>,
        <<"i", "n", "i", "t", " ", "0">>,
        <<"i", "n", "i", "t", " ", "6">>,
        <<"h", "a", "l", "t">>,
        <<"p", "o", "w", "e", "r", "o", "f", "f">> >>

-----------------------------------------------------------------------------
(* SecurityCheckResult.  A reason is the message and the text formatted     *)
(* into it; the dataclass default "" is NoReason.                           *)

Reason(msg, arg) == [msg |-> msg, arg |-> arg]

NoReason == Reason("", <<>>)

SecurityCheckResult(allowed, reason, sanitized_command, risk_level) ==
    [allowed |-> allowed, reason |-> reason,
     sanitized_command |-> sanitized_command, risk_level |-> risk_level]

\* SecurityCheckResult(allowed=True)
Passed == SecurityCheckResult(TRUE, NoReason, None, "low")

\* a rejection that also fills sanitized_command
RejectedKeepingCommand(msg, arg, risk_level) ==
    SecurityCheckResult(FALSE, Reason(msg, arg), Some(arg), risk_level)

\* a rejection built with the dataclass default of reason
RejectedWithoutReason(msg, arg, risk_level) ==
    SecurityCheckResult(FALSE, NoReason, None, risk_level)

Rejected(msg, arg, risk_level) ==
    SecurityCheckResult(FALSE, Reason(msg, arg), None, risk_level)

-----------------------------------------------------------------------------
(* CommandValidator *)

\* __init__: an argument that is None or empty falls back to the Config default
InitField(arg, default) == IF arg = <<>> THEN default ELSE arg

\* _compile_blocked_patterns: '|'.join(re.escape(cmd)), or None for no pattern
blocked_pattern ==
    IF blocked_commands = <<>> THEN None
    ELSE Some(Alt([k \in 1..Len(blocked_commands) |-> Lit(blocked_commands[k])]))

RECURSIVE FirstMatch(_, _, _, _)
\* the leftmost position >= i at which r matches, or 0
FirstMatch(r, s, i, ic) ==
    IF i > Len(s) + 1 THEN 0
    ELSE IF Ends(r, s, i, ic) # {} THEN i
    ELSE FirstMatch(r, s, i + 1, ic)

\* blocked_pattern.search(command).group(): the leftmost match, and at that
\* position the first alternative that matches
BlockedGroup(cmd) ==
    LET i == FirstMatch(blocked_pattern[1], cmd, 1, TRUE)
        k == Min({n \in 1..Len(blocked_commands) :
                    Ends(Lit(blocked_commands[n]), cmd, i, TRUE) # {}})
    IN  Slice(cmd, i, i + Len(blocked_commands[k]))

\* the blacklist pattern compiled without re.IGNORECASE
_check_blocked_case_sensitive(cmd) ==
    IF blocked_pattern # None /\ Search(blocked_pattern[1], cmd, FALSE)
    THEN SecurityCheckResult(FALSE,
            Reason("dangerous operation: '{matched}' is blacklisted", <<>>),
            None, "critical")
    ELSE SecurityCheckResult(TRUE, NoReason, None, "low")

_check_blocked(cmd) ==
    IF blocked_pattern # None /\ Search(blocked_pattern[1], cmd, TRUE)
    THEN Rejected("dangerous operation: '{matched}' is blacklisted",
                  BlockedGroup(cmd), "critical")
    ELSE Passed

_check_whitelist(cmd) ==
    LET sp == shlex_split(cmd)
    IN  IF ~sp.ok
        THEN Rejected("malformed command: {ValueError}", <<>>, "medium")
        ELSE IF sp.tokens = <<>>
        THEN Rejected("cannot parse command", <<>>, "medium")
        ELSE LET cmd_name == Basename(sp.tokens[1])
             IN  IF cmd_name \notin Range(allowed_commands)
                 THEN Rejected("command '{cmd_name}' is not whitelisted",
                               cmd_name, "medium")
                 ELSE Passed

\* [^\s;|&<>]
PathChar == NotCls(ReWhitespace \cup {";", "|", "&", "<", ">"})

\* ([\./][^\s;|&<>]+)
PathGroup1 == Cat(<<Cls({".", "/"}), Plus(PathChar)>>)

\* (/[^\s;|&<>]+)
PathGroup2 == Cat(<<Lit(<<"/">>), Plus(PathChar)>>)

\* One alternative (?:^|\s)(group) of path_pattern tried at position i: the
\* span [from, to) of the group, or <<>> when it does not match.
PathAlternative(group, s, i) ==
    LET atBol == IF i = 1 THEN Ends(group, s, i, FALSE) ELSE {}
        atWs  == IF i <= Len(s) /\ s[i] \in ReWhitespace
                 THEN Ends(group, s, i + 1, FALSE) ELSE {}
    IN  IF atBol # {} THEN <<i, Max(atBol)>>
        ELSE IF atWs # {} THEN <<i + 1, Max(atWs)>>
        ELSE <<>>

RECURSIVE FindPaths(_, _)
\* re.findall(path_pattern, command) from position i: the tuples (group 1,
\* group 2) of the non-overlapping matches, leftmost first
FindPaths(s, i) ==
    IF i > Len(s) THEN <<>>
    ELSE LET m1 == PathAlternative(PathGroup1, s, i)
             m2 == PathAlternative(PathGroup2, s, i)
         IN  IF m1 # <<>>
             THEN <<<<Slice(s, m1[1], m1[2]), <<>>>>>> \o FindPaths(s, m1[2])
             ELSE IF m2 # <<>>
             THEN <<<<<<>>, Slice(s, m2[1], m2[2])>>>> \o FindPaths(s, m2[2])
             ELSE FindPaths(s, i + 1)

RECURSIVE CheckPathsFrom(_, _, _)
\* the loop of _check_paths over the found tuples
CheckPathsFrom(paths, k, sandbox_abs) ==
    IF k > Len(paths) THEN Passed
    ELSE LET path == IF paths[k][1] # <<>> THEN paths[k][1] ELSE paths[k][2]
             abs_path == IF StartsWith(path, <<"/">>) THEN abspath(path)
                         ELSE abspath(path_join(sandbox_dir, path))
         IN  IF path = <<>> THEN CheckPathsFrom(paths, k + 1, sandbox_abs)
             ELSE IF ~StartsWith(abs_path, sandbox_abs)
             THEN Rejected("path '{path}' is outside the sandbox '{sandbox_dir}'",
                           path, "high")
             ELSE CheckPathsFrom(paths, k + 1, sandbox_abs)

_check_paths(cmd) == CheckPathsFrom(FindPaths(cmd, 1), 1, abspath(sandbox_dir))

Ws == Cls(ReWhitespace)

UpperOrUnderscore ==
    Cls({"A", "B", "C", "D", "E", "F", "G", "H", "I", "J", "K", "L", "M", "N",
         "O", "P", "Q", "R", "S", "T", "U", "V", "W", "X", "Y", "Z", "_"})

\* dangerous_patterns of _check_injection, in order
dangerous_patterns == <<
    \* \$\([^)]*\)
    [re |-> Cat(<<Lit(<<"$", "(">>), Star(NotCls({")"})), Lit(<<")">>)>>),
     message |-> "command substitution $(...)"],
    \* a backquote, [^backquote]*, a backquote
    [re |-> Cat(<<Lit(<<Backquote>>), Star(NotCls({Backquote})), Lit(<<Backquote>>)>>),
     message |-> "command substitution by backquotes"],
    \* \$\{?[A-Z_]+\}?
    [re |-> Cat(<<Lit(<<"$">>), Opt(Lit(<<"{">>)), Plus(UpperOrUnderscore),
                  Opt(Lit(<<"}">>))>>),
     message |-> "environment variable reference"],
    \* >\s*/dev/
    [re |-> Cat(<<Lit(<<">">>), Star(Ws), Lit(<<"/", "d", "e", "v", "/">>)>>),
     message |-> "redirection to a device file"],
    \* >\s*/proc/
    [re |-> Cat(<<Lit(<<">">>), Star(Ws), Lit(<<"/", "p", "r", "o", "c", "/">>)>>),
     message |-> "redirection to the proc file system"],
    \* nc\s+-
    [re |-> Cat(<<Lit(<<"n", "c">>), Plus(Ws), Lit(<<"-">>)>>),
     message |-> "netcat command"],
    \* curl\s+.*\|\s*bash
    [re |-> Cat(<<Lit(<<"c", "u", "r", "l">>), Plus(Ws), Star(Dot), Lit(<<"|">>),
                  Star(Ws), Lit(<<"b", "a", "s", "h">>)>>),
     message |-> "download from the network and execute"],
    \* wget\s+.*\|\s*bash
    [re |-> Cat(<<Lit(<<"w", "g", "e", "t">>), Plus(Ws), Star(Dot), Lit(<<"|">>),
                  Star(Ws), Lit(<<"b", "a", "s", "h">>)>>),
     message |-> "download from the network and execute"] >>

RECURSIVE CheckInjectionFrom(_, _)
CheckInjectionFrom(cmd, k) ==
    IF k > Len(dangerous_patterns) THEN Passed
    ELSE IF Search(dangerous_patterns[k].re, cmd, FALSE)
    THEN Rejected("potential security risk: {message}",
                  dangerous_patterns[k].message, "high")
    ELSE CheckInjectionFrom(cmd, k + 1)

_check_injection(cmd) == CheckInjectionFrom(cmd, 1)

\* the chain separator with the single pipe added: \s*(?:&&|\|\||\|)\s*
ChainOrPipeSeparator ==
    Cat(<<Star(Ws), Alt(<<Lit(<<"&", "&">>), Lit(<<"|", "|">>), Lit(<<"|">>)>>),
          Star(Ws)>>)

\* \s*(?:&&|\|\|)\s*
ChainSeparator ==
    Cat(<<Star(Ws), Alt(<<Lit(<<"&", "&">>), Lit(<<"|", "|">>)>>), Star(Ws)>>)

\* (?<!["\'])\s*;\s*(?!["\'])
SemicolonSeparator ==
    Cat(<<NotBehind({"\"", "'"}), Star(Ws), Lit(<<";">>), Star(Ws),
          NotAhead({"\"", "'"})>>)

RECURSIVE ReSplit(_, _, _, _)
\* re.split(r, s): the pieces between the non-overlapping matches of r, found
\* leftmost first, each match taken as long as its greedy quantifiers allow;
\* `from` is where the search resumes and `start` where the piece began
ReSplit(r, s, from, start) ==
    LET i == FirstMatch(r, s, from, FALSE)
    IN  IF i = 0 THEN <<Slice(s, start, Len(s) + 1)>>
        ELSE LET e == Max(Ends(r, s, i, FALSE))
             IN  <<Slice(s, start, i)>> \o ReSplit(r, s, e, e)

RECURSIVE StripNonEmpty(_, _)
\* sub.strip() of every piece, the empty ones dropped
StripNonEmpty(pieces, k) ==
    IF k > Len(pieces) THEN <<>>
    ELSE LET sub == Strip(pieces[k])
         IN  (IF sub # <<>> THEN <<sub>> ELSE <<>>) \o StripNonEmpty(pieces, k + 1)

RECURSIVE SplitSemicolons(_, _)
SplitSemicolons(segments, k) ==
    IF k > Len(segments) THEN <<>>
    ELSE StripNonEmpty(ReSplit(SemicolonSeparator, segments[k], 1, 1), 1)
            \o SplitSemicolons(segments, k + 1)

_split_command_segments(command_string) ==
    SplitSemicolons(ReSplit(ChainSeparator, command_string, 1, 1), 1)

ShellOperators == {<<"|">>, <<"|", "|">>, <<"&", "&">>, <<"&">>}

ShellKeywords ==
    {<<"i", "f">>, <<"t", "h", "e", "n">>, <<"e", "l", "s", "e">>,
     <<"e", "l", "i", "f">>, <<"f", "i">>, <<"f", "o", "r">>,
     <<"w", "h", "i", "l", "e">>, <<"u", "n", "t", "i", "l">>, <<"d", "o">>,
     <<"d", "o", "n", "e">>, <<"c", "a", "s", "e">>, <<"e", "s", "a", "c">>,
     <<"i", "n">>, <<"!">>, <<"{">>, <<"}">>}

RECURSIVE ExtractEveryToken(_, _, _)
\* the token loop with expect_command left true after a name is emitted
ExtractEveryToken(tokens, k, expect_command) ==
    IF k > Len(tokens) THEN <<>>
    ELSE LET token == tokens[k]
         IN  IF token \in ShellOperators
             THEN ExtractEveryToken(tokens, k + 1, TRUE)
             ELSE IF token \in ShellKeywords
             THEN ExtractEveryToken(tokens, k + 1, expect_command)
             ELSE IF StartsWith(token, <<"-">>)
             THEN ExtractEveryToken(tokens, k + 1, expect_command)
             ELSE IF "=" \in Range(token) /\ ~StartsWith(token, <<"=">>)
             THEN ExtractEveryToken(tokens, k + 1, expect_command)
             ELSE IF expect_command
             THEN <<IF "/" \in Range(token) THEN Basename(token) ELSE token>>
                    \o ExtractEveryToken(tokens, k + 1, expect_command)
             ELSE ExtractEveryToken(tokens, k + 1, expect_command)

RECURSIVE ExtractFromTokens(_, _, _)
\* the token loop of _extract_all_commands
ExtractFromTokens(tokens, k, expect_command) ==
    IF k > Len(tokens) THEN <<>>
    ELSE LET token == tokens[k]
         IN  IF token \in ShellOperators
             THEN ExtractFromTokens(tokens, k + 1, TRUE)
             ELSE IF token \in ShellKeywords
             THEN ExtractFromTokens(tokens, k + 1, expect_command)
             ELSE IF StartsWith(token, <<"-">>)
             THEN ExtractFromTokens(tokens, k + 1, expect_command)
             ELSE IF "=" \in Range(token) /\ ~StartsWith(token, <<"=">>)
             THEN ExtractFromTokens(tokens, k + 1, expect_command)
             ELSE IF expect_command
             THEN <<IF "/" \in Range(token) THEN Basename(token) ELSE token>>
                    \o ExtractFromTokens(tokens, k + 1, FALSE)
             ELSE ExtractFromTokens(tokens, k + 1, expect_command)

RECURSIVE ExtractFromSegments(_, _)
\* the segment loop: a segment shlex cannot split, or without a token, is skipped
ExtractFromSegments(segments, k) ==
    IF k > Len(segments) THEN <<>>
    ELSE LET sp == shlex_split(segments[k])
         IN  (IF sp.ok THEN ExtractFromTokens(sp.tokens, 1, TRUE) ELSE <<>>)
                \o ExtractFromSegments(segments, k + 1)

_extract_all_commands(command_string) ==
    ExtractFromSegments(_split_command_segments(command_string), 1)

\* What a call produced: the value returned or the exception raised, and
\* the events it emitted
Return(r) == [raised |-> "", ret |-> r, emitted |-> <<>>]

Unset == SecurityCheckResult(FALSE, NoReason, None, "unset")

Raise(exc) == [raised |-> exc, ret |-> Unset, emitted |-> <<>>]

RECURSIVE FirstSegmentWith(_, _, _, _)
\* the loop that picks cmd_segment: the first segment whose extracted names
\* hold cmd_name, or the whole command when none does
FirstSegmentWith(segments, k, cmd_name, cmd) ==
    IF k > Len(segments) THEN cmd
    ELSE IF cmd_name \in Range(_extract_all_commands(segments[k])) THEN segments[k]
    ELSE FirstSegmentWith(segments, k + 1, cmd_name, cmd)

\* tokens[1:] without the tokens that start with "-"
NonFlagArgs(tokens) ==
    IF tokens = <<>> THEN <<>>
    ELSE SelectSeq(Tail(tokens), LAMBDA tk : ~StartsWith(tk, <<"-">>))

RECURSIVE WordEnd(_, _)
WordEnd(s, i) == IF i <= Len(s) /\ s[i] \notin ReWhitespace THEN WordEnd(s, i + 1) ELSE i

\* target.split(): only its first word is used; <<>> when there is no word
FirstWord(s) ==
    LET b == LStripFrom(s, 1)
    IN  IF b > Len(s) THEN <<>> ELSE <<Slice(s, b, WordEnd(s, b))>>

allowed_processes ==
    {<<"n", "o", "d", "e">>, <<"n", "p", "m">>, <<"n", "p", "x">>,
     <<"v", "i", "t", "e">>, <<"n", "e", "x", "t">>,
     <<"p", "y", "t", "h", "o", "n">>, <<"p", "y", "t", "h", "o", "n", "3">>}

\* orders in which an interpreter iterates allowed_processes: the order follows
\* the str hashes, which are salted anew at each interpreter start
SetIterationOrders == <<
    <<<<"p", "y", "t", "h", "o", "n">>, <<"n", "e", "x", "t">>, <<"n", "p", "m">>,
      <<"n", "p", "x">>, <<"v", "i", "t", "e">>,
      <<"p", "y", "t", "h", "o", "n", "3">>, <<"n", "o", "d", "e">>>>,
    <<<<"n", "p", "x">>, <<"n", "p", "m">>, <<"n", "o", "d", "e">>,
      <<"p", "y", "t", "h", "o", "n", "3">>, <<"p", "y", "t", "h", "o", "n">>,
      <<"n", "e", "x", "t">>, <<"v", "i", "t", "e">>>>,
    <<<<"n", "p", "m">>, <<"n", "e", "x", "t">>, <<"v", "i", "t", "e">>,
      <<"n", "o", "d", "e">>, <<"p", "y", "t", "h", "o", "n", "3">>,
      <<"p", "y", "t", "h", "o", "n">>, <<"n", "p", "x">>>> >>

RECURSIVE ReprItems(_, _)
\* 'a', 'b', ...: the items of a set or list as str() writes them
ReprItems(items, k) ==
    IF k > Len(items) THEN <<>>
    ELSE (IF k > 1 THEN <<",", " ">> ELSE <<>>)
            \o <<"'">> \o items[k] \o <<"'">> \o ReprItems(items, k + 1)

\* f"{allowed_processes}": str() of the set, its items in iteration order
FormatSet(order) == <<"{">> \o ReprItems(order, 1) \o <<"}">>

pkill == <<"p", "k", "i", "l", "l">>

chmod == <<"c", "h", "m", "o", "d">>

rm == <<"r", "m">>

ValidatePkill(cmd_segment) ==
    LET sp == shlex_split(cmd_segment)
        args == NonFlagArgs(sp.tokens)
        last == args[Len(args)]
    IN  IF ~sp.ok THEN Return(Rejected("cannot parse pkill command", <<>>, "high"))
        ELSE IF args = <<>>
        THEN Return(Rejected("pkill needs a process name", <<>>, "medium"))
        ELSE IF " " \in Range(last) /\ FirstWord(last) = <<>>
        THEN Raise("IndexError")
        ELSE LET target == IF " " \in Range(last) THEN FirstWord(last)[1] ELSE last
             IN  IF target \notin allowed_processes
                 THEN Return(Rejected("pkill is only allowed for development processes: {allowed_processes}",
                                      FormatSet(hash_order), "high"))
                 ELSE Return(Passed)

\* ^[ugoa]*\+x$
ChmodPlusX == Cat(<<Bol, Star(Cls({"u", "g", "o", "a"})), Lit(<<"+", "x">>), Eol>>)

ValidateChmod(cmd_segment) ==
    LET sp == shlex_split(cmd_segment)
        modes == NonFlagArgs(sp.tokens)
    IN  IF ~sp.ok THEN Return(Rejected("cannot parse chmod command", <<>>, "high"))
        ELSE IF Len(sp.tokens) < 3
        THEN Return(Rejected("chmod needs a mode and a file", <<>>, "medium"))
        ELSE IF modes = <<>> \/ modes[1] = <<>>
        THEN Return(Rejected("chmod needs a mode", <<>>, "medium"))
        ELSE IF Ends(ChmodPlusX, modes[1], 1, FALSE) = {}
        THEN Return(Rejected("chmod only allows the +x mode, got: {mode}",
                             modes[1], "high"))
        ELSE Return(Passed)

\* rm\s+-.*rf\s+/
RmRecursiveForce ==
    Cat(<<Lit(<<"r", "m">>), Plus(Ws), Lit(<<"-">>), Star(Dot), Lit(<<"r", "f">>),
          Plus(Ws), Lit(<<"/">>)>>)

ValidateRm(cmd_segment) ==
    IF Search(RmRecursiveForce, cmd_segment, FALSE)
    THEN Return(Rejected("recursive forced deletion of the root directory is forbidden",
                         <<>>, "critical"))
    ELSE IF Contains(cmd_segment, <<"/", "*">>)
    THEN Return(Rejected("deleting the contents of the root directory is forbidden",
                         <<>>, "critical"))
    ELSE Return(Passed)

\* the validator of one sensitive command name, applied to a segment
ValidateSensitiveSegment(cmd_segment, cmd_name) ==
    IF cmd_name = pkill THEN ValidatePkill(cmd_segment)
    ELSE IF cmd_name = chmod THEN ValidateChmod(cmd_segment)
    ELSE IF cmd_name = rm THEN ValidateRm(cmd_segment)
    ELSE Return(Passed)

_validate_sensitive_command(cmd, cmd_name) ==
    ValidateSensitiveSegment(
        FirstSegmentWith(_split_command_segments(cmd), 1, cmd_name, cmd), cmd_name)

\* _emit_reject_event -> emit_event -> EventLogger.emit: nothing without a
\* registered logger; otherwise one record, printed and appended to the log
_emit_reject_event(cmd, res) ==
    IF res.allowed \/ ~event_logger THEN <<>>
    ELSE <<[event_type |-> "tool_result", component |-> "security",
            name |-> "command_validation", status |-> "blocked",
            returncode |-> 126, stderr_preview |-> res.reason,
            input_preview |-> cmd, ok |-> FALSE, phase |-> "run"]>>

RejectWithEvent(cmd, res) ==
    [raised |-> "", ret |-> res, emitted |-> _emit_reject_event(cmd, res)]

\* validate with the injection stage moved in front of the blacklist stage
validate_injection_first(cmd0) ==
    IF cmd0 = <<>> \/ Strip(cmd0) = <<>>
    THEN Return(Rejected("command must not be empty", <<>>, "low"))
    ELSE LET cmd == Strip(cmd0)
         IN  IF ~_check_injection(cmd).allowed
             THEN RejectWithEvent(cmd, _check_injection(cmd))
             ELSE IF ~_check_blocked(cmd).allowed
             THEN RejectWithEvent(cmd, _check_blocked(cmd))
             ELSE IF allowed_commands # <<>> /\ ~_check_whitelist(cmd).allowed
             THEN RejectWithEvent(cmd, _check_whitelist(cmd))
             ELSE IF ~_check_paths(cmd).allowed
             THEN RejectWithEvent(cmd, _check_paths(cmd))
             ELSE Return(SecurityCheckResult(TRUE, NoReason, Some(cmd), "low"))

\* validate without its empty check: the stages run on the stripped text
validate_without_empty_check(cmd0) ==
    LET cmd == Strip(cmd0)
    IN  IF ~_check_blocked(cmd).allowed
        THEN RejectWithEvent(cmd, _check_blocked(cmd))
        ELSE IF allowed_commands # <<>> /\ ~_check_whitelist(cmd).allowed
        THEN RejectWithEvent(cmd, _check_whitelist(cmd))
        ELSE IF ~_check_paths(cmd).allowed
        THEN RejectWithEvent(cmd, _check_paths(cmd))
        ELSE IF ~_check_injection(cmd).allowed
        THEN RejectWithEvent(cmd, _check_injection(cmd))
        ELSE Return(SecurityCheckResult(TRUE, NoReason, Some(cmd), "low"))

\* validate; a command that is None is the empty sequence, as "" is
validate(cmd0) ==
    IF cmd0 = <<>> \/ Strip(cmd0) = <<>>
    THEN Return(Rejected("command must not be empty", <<>>, "low"))
    ELSE LET cmd == Strip(cmd0)
             blocked_result == _check_blocked(cmd)
             whitelist_result == _check_whitelist(cmd)
             path_result == _check_paths(cmd)
             injection_result == _check_injection(cmd)
         IN  IF ~blocked_result.allowed THEN RejectWithEvent(cmd, blocked_result)
             ELSE IF allowed_commands # <<>> /\ ~whitelist_result.allowed
             THEN RejectWithEvent(cmd, whitelist_result)
             ELSE IF ~path_result.allowed THEN RejectWithEvent(cmd, path_result)
             ELSE IF ~injection_result.allowed
             THEN RejectWithEvent(cmd, injection_result)
             ELSE Return(SecurityCheckResult(TRUE, NoReason, Some(cmd), "low"))

sensitive_commands == {pkill, chmod, rm}

RECURSIVE CheckCommands(_, _, _)
\* the loop of validate_with_compound_handling over the extracted names
CheckCommands(cmd, commands, k) ==
    IF k > Len(commands)
    THEN Return(SecurityCheckResult(TRUE, NoReason, Some(cmd), "low"))
    ELSE IF allowed_commands # <<>> /\ commands[k] \notin Range(allowed_commands)
    THEN Return(Rejected("command '{cmd}' is not whitelisted", commands[k], "medium"))
    ELSE IF commands[k] \in sensitive_commands
    THEN LET o == _validate_sensitive_command(cmd, commands[k])
         IN  IF o.raised # "" \/ ~o.ret.allowed THEN o
             ELSE CheckCommands(cmd, commands, k + 1)
    ELSE CheckCommands(cmd, commands, k + 1)

\* the entry point without its second pass
validate_without_second_pass(cmd) == validate(cmd)

\* the second pass of validate_with_compound_handling: the names extracted, or
\* the first shlex token when none is, checked one by one
SecondPass(cmd) ==
    LET commands == _extract_all_commands(cmd)
        sp == shlex_split(cmd)
    IN  IF commands # <<>> THEN CheckCommands(cmd, commands, 1)
        ELSE IF ~sp.ok
        THEN Return(Rejected("cannot parse command for safety validation: {exc}",
                             <<>>, "medium"))
        ELSE IF sp.tokens = <<>>
        THEN Return(Rejected("cannot parse command for safety validation: {command}",
                             cmd, "medium"))
        ELSE CheckCommands(cmd, <<Basename(sp.tokens[1])>>, 1)

\* the entry point without its first pass
validate_second_pass_only(cmd) == SecondPass(cmd)

\* the entry point without its second pass
validate_first_pass_only(cmd) == validate(cmd)

validate_with_compound_handling(cmd) ==
    LET base == validate(cmd)
    IN  IF ~base.ret.allowed THEN base
        ELSE [SecondPass(cmd) EXCEPT !.emitted = base.emitted]

-----------------------------------------------------------------------------
(* The state machine: a validator is constructed, a command is proposed, and *)
(* one function of the validator is applied to it.                           *)

\* the strings made of 1..n pieces of a vocabulary
StringsOf(vocabulary, n) ==
    {Flatten(ps) : ps \in UNION {[1..m -> vocabulary] : m \in 1..n}}

\* CommandValidator(allowed_commands, blocked_commands, sandbox_dir) for the
\* arguments drawn from the given sets, and a command drawn from `commands`
\* CodingAgent.run before its first call: no feature taken up, no command run
NotRunning ==
    [pc |-> "idle", iteration |-> 0, commands |-> <<>>, command_results |-> <<>>,
     payload |-> "none"]

InitInProcess(commands, whitelists, blacklists, sandboxes, loggers, orders) ==
    /\ command \in commands
    /\ \E a \in whitelists : allowed_commands = InitField(a, ALLOWED_COMMANDS)
    /\ \E b \in blacklists : blocked_commands = InitField(b, BLOCKED_COMMANDS)
    /\ sandbox_dir \in sandboxes
    /\ event_logger \in loggers
    /\ called = "none"
    /\ result = Unset
    /\ raised = ""
    /\ events = <<>>
    /\ pc = "idle"
    /\ check_result = Unset
    /\ spawns = <<>>
    /\ hash_order \in orders
    /\ PROJECT_DIR = Some(sandbox_dir)
    /\ _global_validator = TRUE
    /\ agents = {sandbox_dir}
    /\ feature_list = None
    /\ run = NotRunning

\* the same in one interpreter process
InitWith(commands, whitelists, blacklists, sandboxes, loggers) ==
    InitInProcess(commands, whitelists, blacklists, sandboxes, loggers,
                  {SetIterationOrders[1]})

validator == <<allowed_commands, blocked_commands, sandbox_dir>>

project == <<PROJECT_DIR, _global_validator, agents>>

session == <<feature_list, run>>

Call(name, o) ==
    /\ called = "none"
    /\ called' = name
    /\ result' = o.ret
    /\ raised' = o.raised
    /\ events' = events \o o.emitted
    /\ UNCHANGED <<session, command, validator, event_logger, pc, check_result, spawns,
                   hash_order, project>>

Validate == Call("validate", validate(command))

ValidateWithCompoundHandling ==
    Call("validate_with_compound_handling", validate_with_compound_handling(command))

CheckPaths == Call("_check_paths", Return(_check_paths(command)))

CheckWhitelist == Call("_check_whitelist", Return(_check_whitelist(command)))

SplitCommandSegments ==
    Call("_split_command_segments", Return(_split_command_segments(command)))

ExtractAllCommands ==
    Call("_extract_all_commands", Return(_extract_all_commands(command)))

-----------------------------------------------------------------------------
(* The executors: run_bash (tools.py) and                                   *)
(* CodingAgent._execute_validated_command (agent.py).  Each validates the   *)
(* command with the global validator, then either returns the rejection or  *)
(* builds exec_args and calls subprocess.run.  get_validator creates the    *)
(* global validator at the first call; set_project_dir and the construction *)
(* of a CodingAgent set the project directory between two calls.            *)

\* os.getcwd() of the process
Cwd == <<"/", "w">>

\* config.get_project_dir(): os.environ.get("PROJECT_DIR", os.getcwd())
get_project_dir == IF PROJECT_DIR = None THEN Cwd ELSE PROJECT_DIR[1]

\* config.set_project_dir(path), called between two command executions
SetProjectDir(path) ==
    /\ called = "none"
    /\ PROJECT_DIR' = Some(abspath(path))
    /\ UNCHANGED <<session, command, validator, event_logger, called, result, raised,
                   events, pc, check_result, spawns, hash_order,
                   _global_validator, agents>>

\* CodingAgent(project_dir): self.project_dir, set_project_dir, and a default
\* event logger when none is registered
ConstructAgent(project_dir) ==
    /\ called = "none"
    /\ PROJECT_DIR' = Some(abspath(project_dir))
    /\ agents' = agents \cup {abspath(project_dir)}
    /\ event_logger' = TRUE
    /\ UNCHANGED <<session, command, validator, called, result, raised, events, pc,
                   check_result, spawns, hash_order, _global_validator>>

\* get_validator() at the start of the executor `name` while _global_validator
\* is None: CommandValidator() with the Config defaults and
\* sandbox_dir = get_project_dir()
GetValidator(name) ==
    /\ called = "none"
    /\ ~_global_validator
    /\ called' = name
    /\ pc' = "validator"
    /\ _global_validator' = TRUE
    /\ allowed_commands' = ALLOWED_COMMANDS
    /\ blocked_commands' = BLOCKED_COMMANDS
    /\ sandbox_dir' = get_project_dir
    /\ UNCHANGED <<session, command, event_logger, result, raised, events, check_result,
                   spawns, hash_order, PROJECT_DIR, agents>>

\* the executor `name` is entered with the global validator there: by a call
\* when the validator exists, or after get_validator has created it
Entered(name) ==
    \/ called = "none" /\ _global_validator
    \/ called = name /\ pc = "validator"

MaxSpawns == 2

MaxEvents == 4

\* the executor returns to its caller, which may call again (followed while
\* the records of spawns and events are short)
Returns ==
    /\ called \in {"run_bash", "_execute_validated_command"}
    /\ pc = "done"
    /\ Len(spawns) < MaxSpawns
    /\ Len(events) < MaxEvents
    /\ called' = "none"
    /\ pc' = "idle"
    /\ raised' = ""
    /\ check_result' = Unset
    /\ UNCHANGED <<session, command, validator, event_logger, result, events,
                   spawns, hash_order, project>>

bash == <<"b", "a", "s", "h">>

\* re.search(r'&&|\|\||;|\|', command) of tools.py
_is_compound_shell_command(cmd) ==
    Search(Alt(<<Lit(<<"&", "&">>), Lit(<<"|", "|">>), Lit(<<";">>), Lit(<<"|">>)>>),
           cmd, FALSE)

\* any(token in command for token in ["&&", "||", ";", "|"]) of agent.py
AgentIsCompoundShellCommand(cmd) ==
    \E token \in {<<"&", "&">>, <<"|", "|">>, <<";">>, <<"|">>} : Contains(cmd, token)

\* exec_args and the mode: bash -lc for a compound command, else shlex.split
ExecArgs(compound, cmd) ==
    LET sp == shlex_split(cmd)
    IN  IF compound
        THEN [raised |-> "", argv |-> <<bash, <<"-", "l", "c">>, cmd>>, mode |-> "compound"]
        ELSE IF sp.ok THEN [raised |-> "", argv |-> sp.tokens, mode |-> "single"]
        ELSE [raised |-> "ValueError", argv |-> <<>>, mode |-> "single"]

\* what subprocess.run can end with: a completed process or an exception
ProcessOutcomes ==
    {[exc |-> "", returncode |-> 0], [exc |-> "", returncode |-> 1],
     [exc |-> "TimeoutExpired", returncode |-> 0],
     [exc |-> "PermissionError", returncode |-> 0]}

\* subprocess.run(exec_args, shell=False, cwd=...)
Spawn(e, cwd) ==
    [argv |-> e.argv, shell |-> FALSE, cwd |-> cwd, mode |-> e.mode]

\* the executor goes on to spawn whatever the validator answered
AuthorizedAlways(check) == TRUE

\* `if not check_result.allowed: return ...` decides whether the executor goes on
Authorized(check) == check.allowed

\* the string run_bash returns
RunBashText(text, detail) == [text |-> text, detail |-> detail]

\* a step of an executor: the fields it assigns, the events it emits and
\* the subprocess.run calls it makes
Step(next_pc, check, ret, exc, emitted, spawned) ==
    /\ pc' = next_pc
    /\ check_result' = check
    /\ result' = ret
    /\ raised' = exc
    /\ events' = events \o emitted
    /\ spawns' = spawns \o spawned
    /\ UNCHANGED <<session, command, validator, event_logger, hash_order, project>>

\* run_bash, up to the answer of the validator; every exception is caught
RunBashValidated(o) ==
    IF o.raised # ""
    THEN Step("done", check_result,
              RunBashText("error while executing the command: {e}", o.raised),
              "", o.emitted, <<>>)
    ELSE Step("checked", o.ret, result, "", o.emitted, <<>>)

RunBashGetValidator == GetValidator("run_bash")

RunBashValidate ==
    /\ Entered("run_bash")
    /\ called' = "run_bash"
    /\ RunBashValidated(validate_with_compound_handling(command))

RunBashReject ==
    /\ called = "run_bash"
    /\ pc = "checked"
    /\ ~Authorized(check_result)
    /\ called' = called
    /\ Step("done", check_result,
            RunBashText("command rejected: {reason}", check_result.reason),
            raised, <<>>, <<>>)

\* the output, or the message of the except clause the outcome lands in
RunBashOutput(e, out) ==
    IF out.exc = "" THEN RunBashText("execution mode: {mode}, return code: {returncode}",
                                     <<e.mode, out.returncode>>)
    ELSE IF out.exc = "TimeoutExpired"
    THEN RunBashText("error: command timed out", <<>>)
    ELSE IF out.exc = "PermissionError"
    THEN RunBashText("error: no permission to execute the command", <<>>)
    ELSE RunBashText("error while executing the command: {e}", out.exc)

\* run_bash after an allowed check: exec_args, then subprocess.run ending in `out`
RunBashExecuted(e, out) ==
    IF e.raised # ""
    THEN Step("done", check_result,
              RunBashText("error while executing the command: {e}", e.raised),
              raised, <<>>, <<>>)
    ELSE IF e.argv = <<>>
    THEN Step("done", check_result, RunBashText("error: command is empty", <<>>),
              raised, <<>>, <<>>)
    ELSE Step("done", check_result, RunBashOutput(e, out), raised, <<>>,
              <<Spawn(e, get_project_dir)>>)

RunBashSpawn ==
    /\ called = "run_bash"
    /\ pc = "checked"
    /\ Authorized(check_result)
    /\ called' = called
    /\ \E out \in ProcessOutcomes :
          RunBashExecuted(ExecArgs(_is_compound_shell_command(command), command), out)

\* emit_event(..., component="agent", name="command_exec", ...)
AgentEvent(event_type, status) ==
    IF event_logger
    THEN <<[event_type |-> event_type, component |-> "agent",
            name |-> "command_exec", status |-> status]>>
    ELSE <<>>

\* the dict _execute_validated_command returns
ExecResult(ok, returncode, stderr, mode) ==
    [ok |-> ok, returncode |-> returncode, stderr |-> stderr, mode |-> mode]

\* _execute_validated_command, up to the answer of the validator; an
\* exception of the validator is not caught here
ExecuteValidated(o) ==
    IF o.raised # ""
    THEN Step("done", check_result, result, o.raised,
              AgentEvent("tool_use", "") \o o.emitted, <<>>)
    ELSE Step("checked", o.ret, result, "",
              AgentEvent("tool_use", "") \o o.emitted, <<>>)

ExecuteGetValidator ==
    /\ agents # {}
    /\ GetValidator("_execute_validated_command")

ExecuteValidate ==
    /\ agents # {}
    /\ Entered("_execute_validated_command")
    /\ called' = "_execute_validated_command"
    /\ ExecuteValidated(validate_with_compound_handling(command))

ExecuteReject ==
    /\ called = "_execute_validated_command"
    /\ pc = "checked"
    /\ ~Authorized(check_result)
    /\ called' = called
    /\ Step("done", check_result,
            ExecResult(FALSE, 126, check_result.reason, "rejected"),
            raised, AgentEvent("tool_result", "blocked"), <<>>)

\* the result dict for an outcome of subprocess.run
ExecOutput(e, out) ==
    IF out.exc = "" THEN ExecResult(out.returncode = 0, out.returncode,
                                     Reason("{completed.stderr}", <<>>), e.mode)
    ELSE IF out.exc = "TimeoutExpired"
    THEN ExecResult(FALSE, 124, Reason("command timed out", <<>>), "timeout")
    ELSE IF out.exc = "ValueError"
    THEN ExecResult(FALSE, 2, Reason("cannot parse command: {exc}", <<>>), "invalid")
    ELSE ExecResult(FALSE, 1, Reason("{exc}", out.exc), "error")

\* _execute_validated_command after an allowed check, in the agent whose
\* self.project_dir is project_dir
ExecuteExecuted(e, out, project_dir) ==
    IF e.raised # ""
    THEN Step("done", check_result, ExecOutput(e, [exc |-> e.raised, returncode |-> 0]),
              raised, AgentEvent("tool_result", "error"), <<>>)
    ELSE IF e.argv = <<>>
    THEN Step("done", check_result,
              ExecResult(FALSE, 2, Reason("command is empty", <<>>), "invalid"),
              raised, <<>>, <<>>)
    ELSE Step("done", check_result, ExecOutput(e, out), raised,
              AgentEvent("tool_result",
                         IF out.exc = "" /\ out.returncode = 0 THEN "done" ELSE "error"),
              <<Spawn(e, project_dir)>>)

ExecuteSpawn ==
    /\ called = "_execute_validated_command"
    /\ pc = "checked"
    /\ Authorized(check_result)
    /\ called' = called
    /\ \E out \in ProcessOutcomes : \E project_dir \in agents :
          ExecuteExecuted(ExecArgs(AgentIsCompoundShellCommand(command), command),
                          out, project_dir)

Next ==
    \/ Validate
    \/ ValidateWithCompoundHandling
    \/ CheckPaths
    \/ SplitCommandSegments
    \/ ExtractAllCommands

-----------------------------------------------------------------------------
(* The inputs.  Each specification draws the command from the strings made  *)
(* of a few pieces of a vocabulary chosen for the stage it exercises, and   *)
(* the validator's arguments from small sets.                               *)

echo == <<"e", "c", "h", "o">>

SandboxRoot == <<"/", "a", "/", "b">>

EntryPoints == {"validate", "validate_with_compound_handling"}

Returned(names) == called \in names /\ raised = ""

MaxPieces == 3

\* pieces that reach every stage of validate and of the second pass
GeneralPieces ==
    {<<"e", "c", "h", "o", " ">>,
     <<"r", "m", " ", "-", "r", "f", " ", "/">>,
     <<"/", "x">>,
     <<"$", "(", "i", "d", ")">>,
     <<"'">>,
     <<"p", "k", "i", "l", "l", " ">>}

Init ==
    InitWith(StringsOf(GeneralPieces, MaxPieces) \cup {<<>>},
             {<<>>, <<echo>>}, {<<>>}, {SandboxRoot}, BOOLEAN)

Spec == Init /\ [][Next]_vars

\* C10: every result validate or validate_with_compound_handling returns has
\* allowed = TRUE if and only if its sanitized_command is not None
AllowedIffSanitizedCommand ==
    Returned(EntryPoints) => (result.allowed <=> result.sanitized_command # None)

\* C10 witness: the second pass allowed a command and returned it as the plan
AllowedWithSanitizedCommand ==
    /\ Returned({"validate_with_compound_handling"})
    /\ result.allowed
    /\ result.sanitized_command = Some(command)
    /\ allowed_commands # <<>>

\* C11: every rejected result that validate or validate_with_compound_handling
\* returns, from whichever stage, has a non-empty reason
RejectedHasReason ==
    (Returned(EntryPoints) /\ ~result.allowed) => result.reason.msg # ""

\* C11 witness: the second pass returned the rejection of the pkill rule
SensitiveRejectionHasReason ==
    /\ Returned({"validate_with_compound_handling"})
    /\ ~result.allowed
    /\ pkill \in Range(_extract_all_commands(command))
    /\ result.reason.msg = "pkill needs a process name"

\* C16: validate and validate_with_compound_handling have no logging or other
\* side effect: whether the command is allowed or rejected, no event is emitted
NoEventEmitted ==
    called \in EntryPoints => events = <<>>

MaxBlacklistPieces == 3

\* blacklist entries whole and in parts, in several casings, after a benign segment
BlacklistPieces ==
    {<<"r", "m", " ">>,
     <<"R", "M", " ">>,
     <<"-", "r", "f", " ", "/">>,
     <<"-", "R", "f", " ", "/">>,
     <<"e", "c", "h", "o", " ", "h", "i", " ", "&", "&", " ">>,
     <<"M", "k", "F", "s">>,
     <<"S", "U", "D", "O", " ">>}

\* a blacklist configured by the caller
CustomBlacklist ==
    <<<<"s", "u", "d", "o">>, <<"h", "i", " ", "&", "&", " ", "r", "m">>>>

InitBlacklist ==
    InitWith(StringsOf(BlacklistPieces, MaxBlacklistPieces),
             {<<>>}, {<<>>, CustomBlacklist}, {SandboxRoot}, {FALSE})

NextBlacklist == Validate \/ ValidateWithCompoundHandling

SpecBlacklist == InitBlacklist /\ [][NextBlacklist]_vars

\* the text holds the entry somewhere, letter case ignored
ContainsIgnoringCase(s, entry) ==
    \E i \in 1..Len(s) :
        /\ i + Len(entry) - 1 <= Len(s)
        /\ \A k \in 1..Len(entry) : LowerOf(s[i + k - 1]) = LowerOf(entry[k])

ContainsBlacklistEntry(s) ==
    \E n \in 1..Len(blocked_commands) : ContainsIgnoringCase(s, blocked_commands[n])

MaxPathPieces == 4

\* paths inside and outside the sandbox root /a/b, absolute and relative
PathPieces ==
    {<<"l", "s", " ">>,
     <<"/", "a", "/", "b">>,
     <<"/", "x">>,
     <<"/", ".", ".">>,
     <<"c">>,
     <<".">>,
     <<"/">>}

InitPaths ==
    InitWith(StringsOf(PathPieces, MaxPathPieces),
             {<<>>}, {<<>>}, {SandboxRoot}, {FALSE})

NextPaths == CheckPaths \/ Validate

SpecPaths == InitPaths /\ [][NextPaths]_vars

ShellMetacharacters == {";", "|", "&", "<", ">"}

RECURSIVE WordsFrom(_, _)
\* the whitespace-delimited words of s from position i
WordsFrom(s, i) ==
    LET b == LStripFrom(s, i)
    IN  IF b > Len(s) THEN {}
        ELSE {Slice(s, b, WordEnd(s, b))} \cup WordsFrom(s, WordEnd(s, b))

RECURSIVE MetaEnd(_, _)
MetaEnd(s, i) ==
    IF i <= Len(s) /\ s[i] \notin ShellMetacharacters THEN MetaEnd(s, i + 1) ELSE i

\* the path-looking tokens: the words that start with "." or "/", each up to
\* its first shell metacharacter
PathTokens(s) ==
    {Slice(w, 1, MetaEnd(w, 1)) : w \in {v \in WordsFrom(s, 1) : v[1] \in {".", "/"}}}

\* the path, taken relative to the sandbox root when it is relative, resolves
\* to a proper descendant of the sandbox root, component by component
ResolvesStrictlyInside(path) ==
    LET root == NormParts(sandbox_dir)
        p == NormParts(IF path[1] = "/" THEN path
                       ELSE sandbox_dir \o <<"/">> \o path)
    IN  /\ p.initial_slashes = root.initial_slashes
        /\ Len(p.comps) > Len(root.comps)
        /\ SubSeq(p.comps, 1, Len(root.comps)) = root.comps

\* the arguments that are paths: the words after the first that contain a
\* "/" or start with "."
PathArguments(s) ==
    LET b == LStripFrom(s, 1)
    IN  {w \in WordsFrom(s, WordEnd(s, b)) : "/" \in Range(w) \/ w[1] = "."}

\* the path resolves to neither the sandbox root nor a descendant of it
ResolvesOutside(path) ==
    LET root == NormParts(sandbox_dir)
        p == NormParts(IF path[1] = "/" THEN path
                       ELSE sandbox_dir \o <<"/">> \o path)
    IN  ~(/\ p.initial_slashes = root.initial_slashes
          /\ Len(p.comps) >= Len(root.comps)
          /\ SubSeq(p.comps, 1, Len(root.comps)) = root.comps)

\* C5: validate rejects with risk_level high every command that has a path
\* argument resolving outside sandbox_root
OutsidePathRejectedHigh ==
    (/\ called = "validate"
     /\ \E path \in PathArguments(command) : ResolvesOutside(path))
    => (raised = "" /\ ~result.allowed /\ result.risk_level = "high")

-----------------------------------------------------------------------------
(* Shell segments as the specification defines them: the quoting state is   *)
(* tracked character by character (single quotes, double quotes, and a      *)
(* backslash outside single quotes), and the text is cut at the separators  *)
(* that are outside quotes.                                                 *)

RECURSIVE CutUnquoted(_, _, _, _, _)
\* the pieces of s between the unquoted occurrences of the separators (each
\* a string of one or two characters), from position i in quoting state q
\* ("" outside quotes), with `cur` the piece collected so far
CutUnquoted(s, seps, i, q, cur) ==
    IF i > Len(s) THEN <<cur>>
    ELSE IF q # "'" /\ s[i] = "\\" /\ i < Len(s)
    THEN CutUnquoted(s, seps, i + 2, q, cur \o <<s[i], s[i + 1]>>)
    ELSE IF q # "" THEN CutUnquoted(s, seps, i + 1, IF s[i] = q THEN "" ELSE q,
                                    Append(cur, s[i]))
    ELSE IF s[i] \in {"'", "\""}
    THEN CutUnquoted(s, seps, i + 1, s[i], Append(cur, s[i]))
    ELSE IF i < Len(s) /\ <<s[i], s[i + 1]>> \in seps
    THEN <<cur>> \o CutUnquoted(s, seps, i + 2, q, <<>>)
    ELSE IF <<s[i]>> \in seps THEN <<cur>> \o CutUnquoted(s, seps, i + 1, q, <<>>)
    ELSE CutUnquoted(s, seps, i + 1, q, Append(cur, s[i]))

RECURSIVE EndQuote(_, _, _)
\* the quoting state at the end of s
EndQuote(s, i, q) ==
    IF i > Len(s) THEN q
    ELSE IF q # "'" /\ s[i] = "\\" /\ i < Len(s) THEN EndQuote(s, i + 2, q)
    ELSE IF q # "" THEN EndQuote(s, i + 1, IF s[i] = q THEN "" ELSE q)
    ELSE EndQuote(s, i + 1, IF s[i] \in {"'", "\""} THEN s[i] ELSE "")

HasUnterminatedQuote(s) == EndQuote(s, 1, "") # ""

SegmentSeparators == {<<"&", "&">>, <<"|", "|">>, <<";">>}

\* the segments delimited by an unquoted &&, || or ;
ShellSegments(s) == StripNonEmpty(CutUnquoted(s, SegmentSeparators, 1, "", <<>>), 1)

\* the stages of the pipelines: the segments cut again at an unquoted | or &
ShellStages(s) ==
    StripNonEmpty(CutUnquoted(s, SegmentSeparators \cup {<<"|">>, <<"&">>}, 1, "", <<>>), 1)

\* the leading command name of a segment or stage (none when it has no word)
LeadingNames(segment) ==
    LET sp == shlex_split(segment)
        names == ExtractFromTokens(sp.tokens, 1, TRUE)
    IN  IF sp.ok /\ names # <<>> THEN {names[1]} ELSE {}

MaxSegmentPieces == 4

\* two commands, quoted strings whole and in halves, separators and the pipe
SegmentPieces ==
    {<<"e", "c", "h", "o", " ">>,
     <<"r", "m", " ", "x">>,
     <<"\"", "a">>,
     <<"b", "\"">>,
     <<"'", "a", "'">>,
     <<";">>,
     <<"&", "&">>,
     <<"|">>,
     <<" ">>}

InitSegments ==
    InitWith(StringsOf(SegmentPieces, MaxSegmentPieces),
             {<<>>, <<echo>>}, {<<>>}, {SandboxRoot}, {FALSE})

NextSegments ==
    \/ Validate
    \/ ValidateWithCompoundHandling
    \/ SplitCommandSegments
    \/ ExtractAllCommands

SpecSegments == InitSegments /\ [][NextSegments]_vars

\* C1: with a whitelist, validate_with_compound_handling allows a command only
\* if the leading command name of every segment delimited by an unquoted &&,
\* || or ; is whitelisted
EverySegmentLeaderWhitelisted ==
    (/\ Returned({"validate_with_compound_handling"})
     /\ allowed_commands # <<>>
     /\ result.allowed)
    => \A k \in 1..Len(ShellSegments(command)) :
          LeadingNames(ShellSegments(command)[k]) \subseteq Range(allowed_commands)

\* C4: a command with an unterminated single or double quote is rejected with
\* risk_level medium by validate and by validate_with_compound_handling, with
\* or without a whitelist, in whichever segment the quote is
UnterminatedQuoteRejected ==
    (called \in EntryPoints /\ HasUnterminatedQuote(command))
    => (raised = "" /\ ~result.allowed /\ result.risk_level = "medium")

\* C8: every stage of a pipeline has its command name extracted, with or
\* without whitespace around the | or & (stated for commands without quotes
\* or backslashes, where the segments are not in question)
EveryPipelineStageExtracted ==
    (/\ Returned({"_extract_all_commands"})
     /\ Range(command) \cap {"'", "\"", "\\"} = {})
    => \A k \in 1..Len(ShellStages(command)) :
          LeadingNames(ShellStages(command)[k]) \subseteq Range(result)

\* C9: _split_command_segments never splits at a ;, && or || inside a quoted
\* string: a command whose separators are all inside quotes is one segment
QuotedSeparatorNeverSplits ==
    (/\ Returned({"_split_command_segments"})
     /\ ~HasUnterminatedQuote(command)
     /\ Len(ShellSegments(command)) = 1)
    => Len(result) = 1

MaxSensitivePieces == 3

\* allowed and forbidden invocations of pkill and chmod, chained
SensitivePieces ==
    {<<"p", "k", "i", "l", "l", " ", "n", "o", "d", "e">>,
     <<"p", "k", "i", "l", "l", " ", "s", "s", "h", "d">>,
     <<"c", "h", "m", "o", "d", " ", "+", "x", " ", "a">>,
     <<"c", "h", "m", "o", "d", " ", "7", "7", "7", " ", "b">>,
     <<" ", "&", "&", " ">>,
     <<";", " ">>,
     <<" ", "|", " ">>,
     <<"e", "c", "h", "o", " ", "h", "i">>}

MaxRmPieces == 4

\* rm with its recursive and force flags in every spelling, and its targets
RmPieces ==
    {<<"r", "m", " ">>,
     <<"-", "r", "f", " ">>,
     <<"-", "f", "r", " ">>,
     <<"-", "r", " ">>,
     <<"-", "f", " ">>,
     <<"/">>,
     <<"*">>,
     <<" ">>,
     <<"x">>}

InitSensitive ==
    InitWith(StringsOf(SensitivePieces, MaxSensitivePieces)
                \cup StringsOf(RmPieces, MaxRmPieces),
             {<<>>}, {<<>>}, {SandboxRoot}, {FALSE})

NextSensitive == Validate \/ ValidateWithCompoundHandling

SpecSensitive == InitSensitive /\ [][NextSensitive]_vars

\* C2: the sensitive-command validator runs for every extracted occurrence of
\* pkill, chmod or rm against the segment that owns the occurrence, so an
\* allowed command has no segment whose own pkill, chmod or rm is refused
EverySensitiveOccurrenceValidated ==
    (Returned({"validate_with_compound_handling"}) /\ result.allowed)
    => \A k \in 1..Len(_split_command_segments(command)) :
          LET segment == _split_command_segments(command)[k]
          IN  \A name \in Range(_extract_all_commands(segment)) \cap sensitive_commands :
                LET o == ValidateSensitiveSegment(segment, name)
                IN  o.raised = "" /\ o.ret.allowed

\* an rm invocation with a recursive and a force flag, in any spelling, and
\* the target /
IsRmRecursiveForceRoot(segment) ==
    LET sp == shlex_split(segment)
        flags == {sp.tokens[k] : k \in {n \in 2..Len(sp.tokens) : sp.tokens[n][1] = "-"}}
        targets == {sp.tokens[k] : k \in {n \in 2..Len(sp.tokens) : sp.tokens[n][1] # "-"}}
    IN  /\ sp.ok
        /\ sp.tokens # <<>>
        /\ sp.tokens[1] = rm
        /\ \E f \in flags : Range(f) \cap {"r", "R"} # {}
        /\ \E f \in flags : "f" \in Range(f)
        /\ <<"/">> \in targets

\* an rm invocation with a target that contains /*
IsRmWithRootGlob(segment) ==
    LET sp == shlex_split(segment)
    IN  /\ sp.ok
        /\ sp.tokens # <<>>
        /\ sp.tokens[1] = rm
        /\ \E k \in 2..Len(sp.tokens) : Contains(sp.tokens[k], <<"/", "*">>)

\* C7: a command with an rm segment that has recursive and force flags and
\* the target /, or a /* target, is rejected with risk_level critical by
\* validate_with_compound_handling
RmOfRootRejectedCritical ==
    (/\ called = "validate_with_compound_handling"
     /\ \E k \in 1..Len(ShellSegments(command)) :
          \/ IsRmRecursiveForceRoot(ShellSegments(command)[k])
          \/ IsRmWithRootGlob(ShellSegments(command)[k]))
    => (raised = "" /\ ~result.allowed /\ result.risk_level = "critical")

-----------------------------------------------------------------------------
(* The executors' inputs: commands that are allowed and rejected, single    *)
(* and compound, with operators inside and outside quotes.                  *)

MaxExecPieces == 2

ExecPieces ==
    {<<"l", "s", " ", "-", "l", "a">>,
     <<"e", "c", "h", "o", " ", "\"", "a", "|", "b", "\"">>,
     <<"e", "c", "h", "o", " ", "'", "x", ";", "y", "'">>,
     <<"p", "k", "i", "l", "l", " ", "n", "o", "d", "e">>,
     <<"p", "k", "i", "l", "l", " ", "s", "s", "h", "d">>,
     <<" ", "&", "&", " ", "e", "c", "h", "o", " ", "h", "i">>,
     <<" ", "|", " ", "p", "k", "i", "l", "l", " ", "n", "o", "d", "e">>,
     <<";", " ", "r", "m", " ", "-", "r", "f", " ", "/">>,
     <<"e", "c", "h", "o", " ", "h", "i">>}

ls == <<"l", "s">>

InitExec ==
    InitWith(StringsOf(ExecPieces, MaxExecPieces),
             {<<>>, <<echo, pkill, ls>>}, {<<>>}, {SandboxRoot}, BOOLEAN)

NextExec ==
    \/ RunBashValidate
    \/ RunBashReject
    \/ RunBashSpawn
    \/ ExecuteValidate
    \/ ExecuteReject
    \/ ExecuteSpawn

SpecExec == InitExec /\ [][NextExec]_vars

Executors == {"run_bash", "_execute_validated_command"}

\* C12: a process is spawned only after validate_with_compound_handling has
\* returned allowed for that same command and always with shell=False; when
\* the validator rejects, nothing is spawned and the executor returns the
\* rejection (return code 126 and mode rejected in the agent)
SpawnOnlyAfterAllowed ==
    /\ spawns # <<>> =>
          /\ called \in Executors
          /\ check_result = validate_with_compound_handling(command).ret
          /\ check_result.allowed
          /\ \A k \in 1..Len(spawns) : spawns[k].shell = FALSE
    /\ (called \in Executors /\ pc = "done" /\ raised = ""
          /\ check_result # Unset /\ ~check_result.allowed) =>
          /\ spawns = <<>>
          /\ called = "run_bash" =>
                result = RunBashText("command rejected: {reason}", check_result.reason)
          /\ called = "_execute_validated_command" =>
                /\ result.returncode = 126
                /\ result.mode = "rejected"
                /\ result.stderr = check_result.reason

\* C12 witness: the agent spawned bash for a compound command the validator allowed
SpawnedAfterAllowed ==
    /\ called = "_execute_validated_command"
    /\ Len(spawns) = 1
    /\ spawns[1].argv[1] = bash
    /\ check_result.allowed

CompoundOperators == {<<"&", "&">>, <<"|", "|">>, <<";">>, <<"|">>}

\* the text has a compound operator outside quotes
HasUnquotedCompoundOperator(s) ==
    Len(CutUnquoted(s, CompoundOperators, 1, "", <<>>)) > 1

CompoundArgvAfterEveryNamePassed ==
    \A k \in 1..Len(spawns) :
       spawns[k].mode = "compound" =>
          /\ spawns[k].argv = <<bash, <<"-", "l", "c">>, command>>
          /\ \A name \in Range(_extract_all_commands(command)) :
                /\ allowed_commands # <<>> => name \in Range(allowed_commands)
                /\ name \in sensitive_commands =>
                      LET o == _validate_sensitive_command(command, name)
                      IN  o.raised = "" /\ o.ret.allowed

\* C14 witness: bash was spawned for a whitelisted chain that holds a pkill
CompoundSpawnedWithSensitiveName ==
    /\ Len(spawns) = 1
    /\ spawns[1].mode = "compound"
    /\ allowed_commands # <<>>
    /\ pkill \in Range(_extract_all_commands(command))
    /\ Len(_extract_all_commands(command)) > 1

\* the stages of validate after the empty check, in the order of the claim;
\* the whitelist stage is there only with a whitelist
ValidateStages(cmd) ==
    <<_check_blocked(cmd)>>
       \o (IF allowed_commands # <<>> THEN <<_check_whitelist(cmd)>> ELSE <<>>)
       \o <<_check_paths(cmd), _check_injection(cmd)>>

\* the text holds a command substitution $(...)
HasCommandSubstitution(s) ==
    \E i \in 1..Len(s) : \E j \in 1..Len(s) :
        i + 1 < j /\ s[i] = "$" /\ s[i + 1] = "(" /\ s[j] = ")"

\* C15: validate runs the empty check, then the blacklist, whitelist (with a
\* whitelist only), path and injection stages in that order and returns the
\* rejection of the first stage that fails, that stage alone having reported;
\* a command with a blacklist entry and a command substitution is rejected
\* as critical with the blacklist reason
FirstFailingStageDecides ==
    Returned({"validate"}) =>
       /\ Len(events) <= 1
       /\ IF Strip(command) = <<>>
          THEN ~result.allowed /\ result.risk_level = "low" /\ events = <<>>
          ELSE LET stages == ValidateStages(Strip(command))
                   failing == {k \in 1..Len(stages) : ~stages[k].allowed}
               IN  IF failing = {} THEN result.allowed
                   ELSE /\ result = stages[Min(failing)]
                        /\ event_logger => events[1].stderr_preview = result.reason
       /\ (ContainsBlacklistEntry(command) /\ HasCommandSubstitution(command)) =>
             /\ result.risk_level = "critical"
             /\ result = _check_blocked(Strip(command))

\* C15 witness: with a whitelist, a command that fails the blacklist, the
\* whitelist, the path and the injection stage is rejected by the blacklist
BlacklistRejectsBeforeLaterStages ==
    /\ Returned({"validate"})
    /\ allowed_commands # <<>>
    /\ ~_check_whitelist(Strip(command)).allowed
    /\ ~_check_paths(Strip(command)).allowed
    /\ ~_check_injection(Strip(command)).allowed
    /\ HasCommandSubstitution(command)
    /\ result.risk_level = "critical"

MaxWhitelistPieces == 3

\* whitelisted and other names behind assignments, flags and keywords
WhitelistPieces ==
    {<<"F", "O", "O", "=", "1", " ">>,
     <<"l", "s">>,
     <<"-", "x", " ">>,
     <<"t", "h", "e", "n", " ">>,
     <<"r", "m">>,
     <<" ">>}

InitWhitelist ==
    InitWith(StringsOf(WhitelistPieces, MaxWhitelistPieces),
             {<<ls>>}, {<<>>}, {SandboxRoot}, {FALSE})

NextWhitelist == CheckWhitelist \/ Validate \/ ValidateWithCompoundHandling

SpecWhitelist == InitWhitelist /\ [][NextWhitelist]_vars

\* C17: with a whitelist, the whitelist stage of validate checks the first
\* extracted command name of the text, the one _extract_all_commands emits
\* first after skipping assignments, flags and shell keywords
WhitelistStageChecksFirstExtractedName ==
    (/\ Returned({"_check_whitelist"})
     /\ allowed_commands # <<>>
     /\ _extract_all_commands(command) # <<>>)
    => (result.allowed <=> _extract_all_commands(command)[1] \in Range(allowed_commands))

-----------------------------------------------------------------------------
(* The invocations of a command in a text, as the specification sees them:  *)
(* the stages whose leading name is the command, each with the positional   *)
(* (non-flag) arguments that follow the name.                               *)

Invocations(s, name) ==
    {ShellStages(s)[k] : k \in {n \in 1..Len(ShellStages(s)) :
                                   LeadingNames(ShellStages(s)[n]) = {name}}}

\* the non-flag tokens after the command name of an invocation
Positionals(stage, name) ==
    LET tokens == shlex_split(stage).tokens
        at == Min({k \in 1..Len(tokens) : Basename(tokens[k]) = name})
    IN  SelectSeq(SubSeq(tokens, at + 1, Len(tokens)), LAMBDA tk : ~StartsWith(tk, <<"-">>))

MaxPkillPieces == 3

PkillPieces ==
    {<<"p", "k", "i", "l", "l", " ", "n", "o", "d", "e">>,
     <<"p", "k", "i", "l", "l", " ", "s", "s", "h", "d">>,
     <<"p", "k", "i", "l", "l", " ", "-", "9", " ", "s", "s", "h", "d">>,
     <<" ", "n", "o", "d", "e">>,
     <<" ", "s", "s", "h", "d">>,
     <<" ", "|", " ">>,
     <<"e", "c", "h", "o", " ", "h", "i">>}

InitPkill ==
    InitWith(StringsOf(PkillPieces, MaxPkillPieces),
             {<<>>}, {<<>>}, {SandboxRoot}, {FALSE})

NextPkill == Validate \/ ValidateWithCompoundHandling

SpecPkill == InitPkill /\ [][NextPkill]_vars

\* the pkill invocation has one positional target and it is allow-listed
PkillInvocationPermitted(stage) ==
    /\ Len(Positionals(stage, pkill)) = 1
    /\ Positionals(stage, pkill)[1] \in allowed_processes

\* C18: a command in which pkill is an extracted name is allowed by
\* validate_with_compound_handling only if that pkill invocation has a single
\* positional target and the target is allow-listed; otherwise it is rejected
\* with risk_level high
PkillOnlyAllowListedTarget ==
    (/\ called = "validate_with_compound_handling"
     /\ pkill \in Range(_extract_all_commands(command))
     /\ \E stage \in Invocations(command, pkill) : ~PkillInvocationPermitted(stage))
    => (raised = "" /\ ~result.allowed /\ result.risk_level = "high")

MaxChmodPieces == 3

ChmodPieces ==
    {<<"e", "c", "h", "o", " ", "+", "x">>,
     <<" ", "|", " ">>,
     <<"c", "h", "m", "o", "d", " ", "7", "7", "7", " ", "f">>,
     <<"c", "h", "m", "o", "d", " ", "+", "x", " ", "f">>,
     <<"c", "h", "m", "o", "d", " ", "-", "R">>,
     <<" ", "u", "+", "x">>,
     <<" ", "g">>}

InitChmod ==
    InitWith(StringsOf(ChmodPieces, MaxChmodPieces),
             {<<>>}, {<<>>}, {SandboxRoot}, {FALSE})

NextChmod == Validate \/ ValidateWithCompoundHandling

SpecChmod == InitChmod /\ [][NextChmod]_vars

\* the first non-flag argument of the chmod invocation matches ^[ugoa]*\+x$
ChmodInvocationPermitted(stage) ==
    /\ Positionals(stage, chmod) # <<>>
    /\ Ends(ChmodPlusX, Positionals(stage, chmod)[1], 1, FALSE) # {}

\* C19: a command in which chmod is an extracted name is allowed by
\* validate_with_compound_handling only if the first non-flag argument of
\* that chmod invocation matches ^[ugoa]*\+x$, also when chmod is a later
\* stage of a pipeline
ChmodOnlyPlusX ==
    (/\ Returned({"validate_with_compound_handling"})
     /\ chmod \in Range(_extract_all_commands(command))
     /\ result.allowed)
    => \A stage \in Invocations(command, chmod) : ChmodInvocationPermitted(stage)

MaxInjectionPieces == 2

\* variable expansions, bare and braced, with names in several casings
InjectionPieces ==
    {<<"e", "c", "h", "o", " ">>,
     <<"$", "H", "O", "M", "E">>,
     <<"$", "h", "o", "m", "e">>,
     <<"$", "{", "H", "O", "M", "E", "}">>,
     <<"$", "{", "h", "o", "m", "e", "}">>,
     <<"$", "P", "a", "t", "h">>,
     <<"$", "p", "A", "T", "H">>,
     <<"$", "_", "x">>,
     <<" ", "x">>}

InitInjection ==
    InitWith(StringsOf(InjectionPieces, MaxInjectionPieces),
             {<<>>}, {<<>>}, {SandboxRoot}, {FALSE})

NextInjection == Validate \/ ValidateWithCompoundHandling

SpecInjection == InitInjection /\ [][NextInjection]_vars

LowerCaseLetters ==
    {"a", "b", "c", "d", "e", "f", "g", "h", "i", "j", "k", "l", "m",
     "n", "o", "p", "q", "r", "s", "t", "u", "v", "w", "x", "y", "z"}

\* $NAME or ${NAME}, the name made of letters of either case and underscores
VariableExpansion ==
    LET name == Plus(Alt(<<UpperOrUnderscore, Cls(LowerCaseLetters)>>))
    IN  Alt(<<Cat(<<Lit(<<"$">>), name>>),
              Cat(<<Lit(<<"$", "{">>), name, Lit(<<"}">>)>>)>>)

\* C20: validate rejects with risk_level high every command that contains an
\* environment-variable expansion $NAME or ${NAME}, whatever the case of the
\* letters of the name
VariableExpansionRejectedHigh ==
    (called = "validate" /\ Search(VariableExpansion, command, FALSE))
    => (raised = "" /\ ~result.allowed /\ result.risk_level = "high")

-----------------------------------------------------------------------------
(* Remote-fetch pipelines and command substitutions in the text validated   *)

MaxFetchPieces == 3

\* curl and wget invocations, pipes into bash on the same line and after a
\* backslash-newline, command substitutions, quotes and a separator
FetchPieces ==
    {<<"c", "u", "r", "l", " ", "x">>,
     <<"w", "g", "e", "t", " ", "x">>,
     <<" ", "|", " ", "b", "a", "s", "h">>,
     <<"|", "b", "a", "s", "h">>,
     <<" ", "\\", "\n">>,
     <<"e", "c", "h", "o", " ">>,
     <<"$", "(", "i", "d", ")">>,
     <<Backquote, "i", "d", Backquote>>,
     <<"'">>,
     <<";", " ">>}

InitFetch ==
    InitWith(StringsOf(FetchPieces, MaxFetchPieces),
             {<<>>}, {BLOCKED_COMMANDS}, {SandboxRoot}, {FALSE})

NextFetch == Validate \/ ValidateWithCompoundHandling

SpecFetch == InitFetch /\ [][NextFetch]_vars

\* the text holds two backquotes
HasBackquotePair(s) ==
    \E i \in 1..Len(s) : \E j \in 1..Len(s) :
        i < j /\ s[i] = Backquote /\ s[j] = Backquote

\* curl or wget with arguments, and further on a pipe whose reader is bash
FetchPipedIntoBash ==
    Cat(<<Alt(<<Lit(<<"c", "u", "r", "l">>), Lit(<<"w", "g", "e", "t">>)>>),
          Plus(Ws), Star(NotCls({})), Lit(<<"|">>), Star(Ws),
          Lit(<<"b", "a", "s", "h">>)>>)

\* no stage of validate before the injection stage rejects the command
NoEarlierStageRejects(cmd) ==
    /\ Strip(cmd) # <<>>
    /\ _check_blocked(Strip(cmd)).allowed
    /\ allowed_commands # <<>> => _check_whitelist(Strip(cmd)).allowed
    /\ _check_paths(Strip(cmd)).allowed

\* C21: validate rejects with risk_level high every command whose text holds
\* a command substitution $(...), a pair of backquotes, or curl or wget piped
\* into bash, wherever in the text (inside quotes, in a later segment), when
\* no earlier stage has rejected the command
InjectionTextRejectedHigh ==
    (/\ called = "validate"
     /\ NoEarlierStageRejects(command)
     /\ \/ HasCommandSubstitution(command)
        \/ HasBackquotePair(command)
        \/ Search(FetchPipedIntoBash, command, FALSE))
    => (raised = "" /\ ~result.allowed /\ result.risk_level = "high")

-----------------------------------------------------------------------------
(* Repeated calls: the same call made again in the same interpreter, and    *)
(* in a new interpreter by a validator built from the same arguments        *)

MaxRepeatPieces == 2

\* commands that each stage rejects, sensitive commands, a compound separator
RepeatPieces ==
    {<<"p", "k", "i", "l", "l", " ", "n", "o", "d", "e">>,
     <<"p", "k", "i", "l", "l", " ", "s", "s", "h", "d">>,
     <<"e", "c", "h", "o", " ", "h", "i">>,
     <<" ", "&", "&", " ">>,
     <<"c", "a", "t", " ", "/", "e", "t", "c", "/", "x">>,
     <<"r", "m", " ", "-", "r", "f", " ", "/">>,
     <<" ", "$", "(", "i", "d", ")">>,
     <<" ", "\"", "x">>}

InitRepeat ==
    InitInProcess(StringsOf(RepeatPieces, MaxRepeatPieces) \cup {<<>>},
                  {<<>>, <<echo, pkill>>}, {BLOCKED_COMMANDS}, {SandboxRoot},
                  {FALSE}, Range(SetIterationOrders))

EntryPointOutcome(name) ==
    IF name = "validate" THEN validate(command)
    ELSE validate_with_compound_handling(command)

\* the entry point called a second time on the validator, with the same command
Again(o) ==
    /\ called \in EntryPoints
    /\ called' = called
    /\ result' = o.ret
    /\ raised' = o.raised
    /\ events' = events \o o.emitted
    /\ UNCHANGED <<session, command, validator, event_logger, pc, check_result, spawns,
                   hash_order, project>>

CallAgain == Again(EntryPointOutcome(called))

\* the interpreter ends and a new one builds the validator from the same
\* arguments; `result` still holds what the call returned in the old one
NewProcess ==
    /\ called \in EntryPoints
    /\ hash_order' \in Range(SetIterationOrders)
    /\ UNCHANGED <<session, command, validator, event_logger, called, result, raised,
                   events, pc, check_result, spawns, project>>

NextRepeat ==
    \/ Validate
    \/ ValidateWithCompoundHandling
    \/ CallAgain
    \/ NewProcess

SpecRepeat == InitRepeat /\ [][NextRepeat]_vars

\* C22: validate, or validate_with_compound_handling, called again with the
\* same command on a validator with the same blacklist, whitelist and sandbox
\* root returns a result equal in every field (allowed, reason, risk_level,
\* sanitized_command) and ends the same way: nothing else decides the result
SameCallSameResult ==
    [][(called \in EntryPoints /\ called' = called)
          => (result' = result /\ raised' = raised)]_vars

-----------------------------------------------------------------------------
(* Inputs on which a stage fails: no text, blanks, open quotes, blank       *)
(* arguments of sensitive commands                                          *)

MaxFaultPieces == 3

FaultPieces ==
    {<<"p", "k", "i", "l", "l", " ">>,
     <<"c", "h", "m", "o", "d", " ">>,
     <<"'", " ", "'">>,
     <<"'">>,
     <<"n", "o", "d", "e">>,
     <<" ", "/", "x">>,
     <<" ", " ">>,
     <<"\t", "\n">>}

\* None and "" are the empty sequence
InitFaults ==
    InitWith(StringsOf(FaultPieces, MaxFaultPieces) \cup {<<>>},
             {<<>>, <<echo>>}, {BLOCKED_COMMANDS}, {SandboxRoot}, BOOLEAN)

NextFaults == Validate \/ ValidateWithCompoundHandling

SpecFaults == InitFaults /\ [][NextFaults]_vars

\* C23: for every input (none, empty, blank, unparsable or any other text)
\* validate and validate_with_compound_handling return a result and raise no
\* exception: a failure of tokenization, of path resolution or of a sensitive
\* command's validator becomes a rejection or is ignored
EntryPointsNeverRaise ==
    called \in EntryPoints =>
        /\ raised = ""
        /\ result.allowed \in BOOLEAN
        /\ result.risk_level \in {"low", "medium", "high", "critical"}

-----------------------------------------------------------------------------
\* C24: validate_with_compound_handling runs validate first and returns
\* validate's rejection unchanged when validate rejects; its second pass only
\* turns an allow into a reject, so every command it allows validate allows
SecondPassOnlyRejects ==
    Returned({"validate_with_compound_handling"}) =>
        /\ ~validate(command).ret.allowed =>
              /\ result = validate(command).ret
              /\ events = validate(command).emitted
        /\ result.allowed => validate(command).ret.allowed

\* C24 witness: validate rejects a command substitution as high and the
\* compound entry point has returned that rejection
ValidateRejectionReturnedUnchanged ==
    /\ Returned({"validate_with_compound_handling"})
    /\ ~validate(command).ret.allowed
    /\ result = validate(command).ret
    /\ result.risk_level = "high"
    /\ event_logger /\ Len(events) = 1

\* the text is empty or made of blanks only (None is the empty sequence)
IsBlank(s) == \A k \in 1..Len(s) : s[k] \in ReWhitespace

\* C25: an empty, None or whitespace-only command is rejected by validate and
\* by validate_with_compound_handling with a non-empty reason and no
\* sanitized command, before any other stage runs: the rejection is the empty
\* check's, and no stage has reported a rejection
BlankCommandRejectedFirst ==
    (called \in EntryPoints /\ IsBlank(command)) =>
        /\ raised = ""
        /\ ~result.allowed
        /\ result.reason.msg # ""
        /\ result.sanitized_command = None
        /\ result = Rejected("command must not be empty", <<>>, "low")
        /\ events = <<>>

\* C25 witness: with a whitelist and a registered logger, the compound entry
\* point has rejected a command of blanks
BlankCommandRejected ==
    /\ called = "validate_with_compound_handling"
    /\ Len(command) > 2 /\ IsBlank(command)
    /\ allowed_commands # <<>> /\ event_logger
    /\ ~result.allowed /\ result.reason.msg = "command must not be empty"

-----------------------------------------------------------------------------
(* The token scan of _extract_all_commands                                  *)

MaxExtractPieces == 4

\* a word, a path, operators, a flag, an assignment, a token that starts with
\* an equals sign, a keyword
ExtractPieces ==
    {<<"l", "s", " ">>,
     <<"/", "a", "/", "b", " ">>,
     <<"|", " ">>,
     <<"&", " ">>,
     <<"-", "x", " ">>,
     <<"X", "=", "1", " ">>,
     <<"=", "y", " ">>,
     <<"i", "f", " ">>}

InitExtract ==
    InitWith(StringsOf(ExtractPieces, MaxExtractPieces),
             {<<>>}, {BLOCKED_COMMANDS}, {SandboxRoot}, {FALSE})

NextExtract == ExtractAllCommands

SpecExtract == InitExtract /\ [][NextExtract]_vars

\* a token the scan passes over: a keyword, a flag, or an assignment (an `=`
\* in the token, not at its start)
PassedOver(token) ==
    \/ token \in ShellKeywords
    \/ (token # <<>> /\ token[1] = "-")
    \/ ("=" \in Range(token) /\ token[1] # "=")

\* the positions of the tokens that name a command: the first token of each
\* operator-delimited group that is neither an operator nor passed over
NamePositions(tokens) ==
    LET names(k) == tokens[k] \notin ShellOperators /\ ~PassedOver(tokens[k])
    IN  {k \in 1..Len(tokens) :
            /\ names(k)
            /\ ~\E j \in 1..(k - 1) :
                   /\ names(j)
                   /\ \A m \in (j + 1)..(k - 1) : tokens[m] \notin ShellOperators}

\* the names at those positions in token order, a path by its basename
NamesOfTokens(tokens) ==
    LET at == SelectSeq([k \in 1..Len(tokens) |-> k],
                        LAMBDA k : k \in NamePositions(tokens))
    IN  [i \in 1..Len(at) |->
            IF "/" \in Range(tokens[at[i]]) THEN Basename(tokens[at[i]])
            ELSE tokens[at[i]]]

RECURSIVE NamesOfSegments(_, _)
NamesOfSegments(segments, k) ==
    IF k > Len(segments) THEN <<>>
    ELSE (IF shlex_split(segments[k]).ok
          THEN NamesOfTokens(shlex_split(segments[k]).tokens) ELSE <<>>)
            \o NamesOfSegments(segments, k + 1)

\* C26: _extract_all_commands scans the tokens of each segment from left to
\* right: the operators |, ||, &&, & open a new group and are not emitted;
\* keywords, flags and assignments are passed over; of the other tokens only
\* the first of each group is emitted, as its basename when it holds a slash;
\* so a segment yields at most one name per group, in token order
OneNamePerOperatorGroup ==
    called = "_extract_all_commands" =>
        /\ raised = ""
        /\ result = NamesOfSegments(_split_command_segments(command), 1)

\* C26 witness: an assignment is passed over, the path after it is emitted by
\* its basename, and the word after the pipe is the second name
AssignmentSkippedPathAndPipeNamed ==
    /\ called = "_extract_all_commands"
    /\ command = <<"X", "=", "1", " ", "/", "a", "/", "b", " ", "|", " ", "l", "s", " ">>
    /\ result = <<<<"b">>, <<"l", "s">>>>

-----------------------------------------------------------------------------
(* The pieces _split_command_segments returns                               *)

MaxSplitPieces == 4

\* a word, blanks, pipes alone and doubled, the chain and list separators and
\* a quote
SplitPieces ==
    {<<"a">>,
     <<" ">>,
     <<"|">>,
     <<" ", "|", " ">>,
     <<"|", "|">>,
     <<"&", "&">>,
     <<";">>,
     <<"'">>}

InitSplit ==
    InitWith(StringsOf(SplitPieces, MaxSplitPieces),
             {<<>>}, {BLOCKED_COMMANDS}, {SandboxRoot}, {FALSE})

NextSplit == SplitCommandSegments

SpecSplit == InitSplit /\ [][NextSplit]_vars

\* the text dropped between two pieces: blanks and separators only, no pipe
\* and no ampersand standing alone
IsSeparatorGap(g) ==
    \A k \in 1..Len(g) :
        /\ g[k] \in ReWhitespace \cup {";", "&", "|"}
        /\ g[k] \in {"&", "|"} =>
              \/ (k > 1 /\ g[k - 1] = g[k])
              \/ (k < Len(g) /\ g[k + 1] = g[k])

RECURSIVE LaidInOrder(_, _, _, _)
\* the pieces from the k-th on lie in s from position `from` on, one after the
\* other, with separator gaps between them and after the last
LaidInOrder(pieces, k, s, from) ==
    IF k > Len(pieces) THEN IsSeparatorGap(Slice(s, from, Len(s) + 1))
    ELSE \E i \in from..(Len(s) + 1 - Len(pieces[k])) :
            /\ Slice(s, i, i + Len(pieces[k])) = pieces[k]
            /\ IsSeparatorGap(Slice(s, from, i))
            /\ LaidInOrder(pieces, k + 1, s, i + Len(pieces[k]))

\* C27: _split_command_segments returns its pieces in the order of the text,
\* returns no empty and no whitespace-only piece (consecutive and trailing
\* separators give none), and never splits at a single |: a pipeline stays in
\* one piece
PiecesInOrderNoneBlankPipesKept ==
    called = "_split_command_segments" =>
        /\ raised = ""
        /\ \A k \in 1..Len(result) : ~IsBlank(result[k])
        /\ LaidInOrder(result, 1, command, 1)

\* C27 witness: a pipeline before a trailing separator is returned as the one
\* piece
PipelineIsOnePiece ==
    /\ called = "_split_command_segments"
    /\ command = <<"a", " ", "|", " ", "a", ";">>
    /\ result = <<<<"a", " ", "|", " ", "a">>>>

-----------------------------------------------------------------------------
(* Project directories: the directory set by set_project_dir and by the     *)
(* construction of agents, the root the global validator was created with,  *)
(* and the directory each command is spawned in                             *)

\* the directories handed to set_project_dir and to CodingAgent
ProjectDirs == {<<"/", "p">>, <<"/", "q">>, <<"/", "q", "/">>}

\* a command without a path, and one with a path in each directory
ProjectCommands ==
    {<<"l", "s">>,
     <<"l", "s", " ", "/", "p", "/", "f">>,
     <<"l", "s", " ", "/", "q", "/", "f">>}

\* a process in which no validator and no agent exists yet; PROJECT_DIR may
\* be set in the environment the process starts with
InitProject ==
    /\ command \in ProjectCommands
    /\ allowed_commands = ALLOWED_COMMANDS
    /\ blocked_commands = BLOCKED_COMMANDS
    /\ sandbox_dir = None
    /\ event_logger = FALSE
    /\ called = "none"
    /\ result = Unset
    /\ raised = ""
    /\ events = <<>>
    /\ pc = "idle"
    /\ check_result = Unset
    /\ spawns = <<>>
    /\ hash_order = SetIterationOrders[1]
    /\ PROJECT_DIR \in {None, Some(<<"/", "p">>)}
    /\ _global_validator = FALSE
    /\ agents = {}
    /\ feature_list = None
    /\ run = NotRunning

NextProject ==
    \/ \E path \in ProjectDirs : SetProjectDir(path)
    \/ \E project_dir \in ProjectDirs : ConstructAgent(project_dir)
    \/ RunBashGetValidator
    \/ RunBashValidate
    \/ RunBashReject
    \/ RunBashSpawn
    \/ ExecuteGetValidator
    \/ ExecuteValidate
    \/ ExecuteReject
    \/ ExecuteSpawn
    \/ Returns

SpecProject == InitProject /\ [][NextProject]_vars

\* C28: after any sequence of set_project_dir calls, constructions of agents
\* and command executions, the sandbox root the global validator checks paths
\* against is the working directory every authorized command is spawned in
SandboxRootIsSpawnDirectory ==
    \A k \in 1..Len(spawns) : spawns[k].cwd = abspath(sandbox_dir)

-----------------------------------------------------------------------------
(* CodingAgent.run (agent.py): one call takes up one feature, invokes the   *)
(* agent, executes the feature's verification commands one after the other  *)
(* with _execute_validated_command and writes the feature's status.  The    *)
(* tool calls the language model makes inside _invoke_agent and the git     *)
(* commit after the verdict are not followed.                               *)

\* Config.FEATURE_MAX_CONSECUTIVE_FAILURES
FEATURE_MAX_CONSECUTIVE_FAILURES == 3

\* Feature(...): __post_init__ fills verify_commands from test_command when
\* no verify_commands are given
Feature(status, verify_commands, test_command, consecutive_failures) ==
    [status |-> status,
     verify_commands |-> IF verify_commands = <<>> /\ test_command # <<>>
                         THEN <<test_command>> ELSE verify_commands,
     test_command |-> test_command,
     consecutive_failures |-> consecutive_failures]

\* the line boundaries of str.splitlines among the characters used here
LineBoundaries == {"\n", "\r", "\f"}

RECURSIVE SplitLines(_, _, _)
\* str.splitlines(): "\r\n" is one boundary, no empty last line
SplitLines(s, i, cur) ==
    IF i > Len(s) THEN (IF cur = <<>> THEN <<>> ELSE <<cur>>)
    ELSE IF s[i] = "\r" /\ i < Len(s) /\ s[i + 1] = "\n"
    THEN <<cur>> \o SplitLines(s, i + 2, <<>>)
    ELSE IF s[i] \in LineBoundaries THEN <<cur>> \o SplitLines(s, i + 1, <<>>)
    ELSE SplitLines(s, i + 1, Append(cur, s[i]))

\* CodingAgent._get_feature_verify_commands
_get_feature_verify_commands(feature) ==
    IF feature.verify_commands # <<>>
    THEN StripNonEmpty(feature.verify_commands, 1)
    ELSE IF feature.test_command # <<>>
    THEN StripNonEmpty(SplitLines(feature.test_command, 1, <<>>), 1)
    ELSE <<>>

\* ProgressManager.get_next_feature_with_reason()["feature"], as run uses it:
\* the feature when it is pending or in progress and not cooling down after
\* a failure, else None
get_next_feature_with_reason(cooling) ==
    IF feature_list[1].status \in {"in_progress", "pending"}
       /\ ~(cooling /\ feature_list[1].consecutive_failures > 0)
    THEN feature_list
    ELSE None

\* ProgressManager.record_feature_attempt(feature_id, success, cooldown_seconds),
\* as run uses it: the feature with its count of consecutive failures
record_feature_attempt(feature, success) ==
    [feature EXCEPT !.consecutive_failures = IF success THEN 0 ELSE @ + 1]

\* emit_event(..., component="agent", name=..., ok=...)
RunEvent(event_type, name, ok) ==
    IF event_logger
    THEN <<[event_type |-> event_type, component |-> "agent", name |-> name,
            status |-> IF ok THEN "ok" ELSE "failed"]>>
    ELSE <<>>

\* `if not result.get("ok")` of the verification loop reads this
ResultOkAlways(r) == TRUE

\* result.get("ok") of the verification loop
ResultOk(r) == r.ok

\* a step of run between two command executions: its locals, the feature
\* list it saves, the command it executes next and the events it emits
RunStep(next_run, next_feature_list, next_command, emitted) ==
    /\ run' = next_run
    /\ feature_list' = next_feature_list
    /\ command' = next_command
    /\ events' = events \o emitted
    /\ called' = "none"
    /\ pc' = "idle"
    /\ raised' = ""
    /\ check_result' = Unset
    /\ UNCHANGED <<validator, event_logger, result, spawns, hash_order, project>>

\* run returns (or raises) with `payload`
RunFinish(payload, command_results, next_feature_list, emitted) ==
    RunStep([run EXCEPT !.pc = "idle", !.payload = payload,
                        !.command_results = command_results],
            next_feature_list, command, emitted)

\* the failed attempt is recorded and the status written: blocked after
\* FEATURE_MAX_CONSECUTIVE_FAILURES failures in a row, else in_progress
\* (the else branch of the verdict and the except clause of run)
AttemptFailed(command_results, emitted) ==
    LET updated_feature == record_feature_attempt(feature_list[1], FALSE)
        status == IF updated_feature.consecutive_failures
                        >= FEATURE_MAX_CONSECUTIVE_FAILURES
                  THEN "blocked" ELSE "in_progress"
    IN  RunFinish(status, command_results,
                  Some([updated_feature EXCEPT !.status = status]),
                  emitted \o RunEvent("session_end", "run", FALSE))

\* the verdict of _run_feature_verification and what run does with it
Conclude(passed, command_results, emitted) ==
    IF passed
    THEN RunFinish("completed", command_results,
                   Some([record_feature_attempt(feature_list[1], TRUE)
                            EXCEPT !.status = "completed"]),
                   emitted \o RunEvent("verification", "feature_verification", TRUE)
                           \o RunEvent("session_end", "run", TRUE))
    ELSE AttemptFailed(command_results,
                       emitted \o RunEvent("verification", "feature_verification",
                                           FALSE))

\* run after the precheck: the next feature is taken up (status in_progress,
\* the iteration counted) or run returns because there is none
Schedule(emitted) ==
    \E cooling \in BOOLEAN :
        IF get_next_feature_with_reason(cooling) = None
        THEN RunFinish("no feature", <<>>, feature_list,
                       emitted \o RunEvent("session_end", "run",
                                           feature_list[1].status = "completed"))
        ELSE RunStep([run EXCEPT !.pc = "agent", !.iteration = @ + 1,
                                 !.commands = <<>>, !.command_results = <<>>,
                                 !.payload = "none"],
                     Some([feature_list[1] EXCEPT !.status = "in_progress"]),
                     command, emitted)

\* f"bash ./{Config.INIT_SCRIPT_NAME}"
InitScriptCommand ==
    <<"b", "a", "s", "h", " ", ".", "/", "i", "n", "i", "t", ".", "s", "h">>

\* run is called: without a feature list it returns; with init.sh in the
\* project directory the precheck executes it; else the precheck is skipped
RunStart ==
    /\ run.pc = "idle"
    /\ called = "none"
    /\ agents # {}
    /\ Len(events) < MaxEvents
    /\ IF feature_list = None
       THEN RunFinish("no feature list", <<>>, feature_list,
                      RunEvent("session_start", "run", TRUE)
                      \o RunEvent("session_end", "run", FALSE))
       ELSE \E init_exists \in BOOLEAN :
               IF init_exists
               THEN RunStep([run EXCEPT !.pc = "precheck", !.commands = <<>>,
                                        !.command_results = <<>>, !.payload = "none"],
                            feature_list, InitScriptCommand,
                            RunEvent("session_start", "run", TRUE))
               ELSE Schedule(RunEvent("session_start", "run", TRUE)
                             \o RunEvent("precheck", "session_precheck", TRUE))

\* _execute_validated_command as run calls it, for the precheck and for a
\* verification command
RunExecuteValidate ==
    /\ run.pc \in {"precheck", "verify"}
    /\ ExecuteValidate

RunExecuteReject ==
    /\ run.pc \in {"precheck", "verify"}
    /\ ExecuteReject

RunExecuteSpawn ==
    /\ run.pc \in {"precheck", "verify"}
    /\ ExecuteSpawn

\* the precheck has executed init.sh: an exception leaves run (the call is
\* outside the try block), a failure ends the run, else run goes on
PrecheckDone ==
    /\ run.pc = "precheck"
    /\ called = "_execute_validated_command"
    /\ pc = "done"
    /\ IF raised # ""
       THEN RunFinish("raised", <<>>, feature_list, <<>>)
       ELSE IF ~result.ok
       THEN RunFinish("precheck failed", <<>>, feature_list,
                      RunEvent("precheck", "session_precheck", FALSE)
                      \o RunEvent("session_end", "run", FALSE))
       ELSE Schedule(RunEvent("precheck", "session_precheck", TRUE))

\* _invoke_agent returns or raises; after it _run_feature_verification reads
\* the commands and, when there are some, executes the first
InvokeAgent ==
    /\ run.pc = "agent"
    /\ \E exc \in {"", "Exception"} :
          IF exc # ""
          THEN AttemptFailed(<<>>, RunEvent("error", "run", FALSE))
          ELSE IF _get_feature_verify_commands(feature_list[1]) = <<>>
          THEN Conclude(FALSE, <<>>,
                        RunEvent("assistant_text", "assistant_response", TRUE))
          ELSE RunStep([run EXCEPT !.pc = "verify",
                                   !.commands =
                                       _get_feature_verify_commands(feature_list[1])],
                       feature_list,
                       _get_feature_verify_commands(feature_list[1])[1],
                       RunEvent("assistant_text", "assistant_response", TRUE))

\* the verification loop after one command: an exception of the executor
\* lands in the except clause of run; a result that is not ok ends the loop;
\* else the next command is executed or the verification has passed
VerificationStep ==
    /\ run.pc = "verify"
    /\ called = "_execute_validated_command"
    /\ pc = "done"
    /\ IF raised # ""
       THEN AttemptFailed(run.command_results, RunEvent("error", "run", FALSE))
       ELSE IF ~ResultOk(result)
       THEN Conclude(FALSE, Append(run.command_results, result), <<>>)
       ELSE IF Len(run.command_results) + 1 < Len(run.commands)
       THEN RunStep([run EXCEPT !.command_results = Append(@, result)],
                    feature_list, run.commands[Len(run.command_results) + 2], <<>>)
       ELSE Conclude(TRUE, Append(run.command_results, result), <<>>)

MaxVerifyCommands == 2

\* verification commands as feature_list.json holds them: allowed ones (one
\* with blanks around it, one a pipeline), a blacklisted one, one the
\* validator fails on, and a blank entry
VerifyCommands ==
    {<<" ", "l", "s", " ">>,
     <<"l", "s", " ", "|", " ", "w", "c">>,
     <<"r", "m", " ", "-", "r", "f", " ", "/">>,
     <<"p", "k", "i", "l", "l", " ", "'", " ", "'">>,
     <<" ", " ">>}

RunProjectDir == <<"/", "p">>

\* a process with one agent and the global validator, and a feature list
\* with one feature (or no feature list)
InitRun ==
    /\ command = <<>>
    /\ allowed_commands = ALLOWED_COMMANDS
    /\ blocked_commands = BLOCKED_COMMANDS
    /\ sandbox_dir = RunProjectDir
    /\ event_logger = TRUE
    /\ called = "none"
    /\ result = Unset
    /\ raised = ""
    /\ events = <<>>
    /\ pc = "idle"
    /\ check_result = Unset
    /\ spawns = <<>>
    /\ hash_order = SetIterationOrders[1]
    /\ PROJECT_DIR = Some(RunProjectDir)
    /\ _global_validator = TRUE
    /\ agents = {RunProjectDir}
    /\ run = NotRunning
    /\ \/ feature_list = None
       \/ \E n \in 0..MaxVerifyCommands :
          \E verify_commands \in [1..n -> VerifyCommands] :
          \E consecutive_failures \in {0, FEATURE_MAX_CONSECUTIVE_FAILURES - 1} :
             feature_list = Some(Feature("pending", verify_commands, <<>>,
                                         consecutive_failures))
       \/ \E status \in {"pending", "completed", "blocked"} :
             feature_list = Some(Feature(status, <<>>, <<" ", "l", "s", " ">>, 0))

NextRun ==
    \/ RunStart
    \/ RunExecuteValidate
    \/ RunExecuteReject
    \/ RunExecuteSpawn
    \/ PrecheckDone
    \/ InvokeAgent
    \/ VerificationStep

SpecRun == InitRun /\ [][NextRun]_vars

\* the step writes the status completed
SetsCompleted ==
    /\ feature_list # None
    /\ feature_list[1].status # "completed"
    /\ feature_list'[1].status = "completed"

\* the validator authorizes the command
IsAuthorized(cmd) ==
    /\ validate_with_compound_handling(cmd).raised = ""
    /\ validate_with_compound_handling(cmd).ret.allowed

\* the result of a command that was spawned and exited with return code 0
ExitedWithZero(r) ==
    /\ r.mode \in {"single", "compound"}
    /\ r.returncode = 0

\* C29: run writes the status completed only when the feature has at least
\* one verification command and every one of them was authorized by
\* validate_with_compound_handling, executed and exited with return code 0;
\* a verification command is executed only after all the commands before it
\* passed, so nothing is executed after the first command that is rejected,
\* fails or times out, which is the last result of the run; and a run without
\* verification commands or with such a command does not write completed
CompletedOnlyWhenEveryVerificationPassed ==
    [][/\ SetsCompleted =>
            LET commands == _get_feature_verify_commands(feature_list[1])
            IN  /\ commands # <<>>
                /\ run.commands = commands
                /\ Len(run'.command_results) = Len(commands)
                /\ \A k \in 1..Len(commands) :
                      /\ IsAuthorized(commands[k])
                      /\ ExitedWithZero(run'.command_results[k])
       /\ (run.pc = "verify" /\ spawns' # spawns) =>
            /\ Len(run.command_results) < Len(run.commands)
            /\ command = run.commands[Len(run.command_results) + 1]
            /\ \A k \in 1..Len(run.command_results) :
                  ExitedWithZero(run.command_results[k])
       /\ \A k \in 1..Len(run.command_results) - 1 :
             ExitedWithZero(run.command_results[k])
      ]_vars

\* a feature with two verification commands, one of them a pipeline, has
\* been completed by a run
CompletedAfterTwoCommands ==
    /\ feature_list # None
    /\ feature_list[1].status = "completed"
    /\ Len(run.command_results) = 2
    /\ run.command_results[2].mode = "compound"

-----------------------------------------------------------------------------
(* Tokenization: what the executors' shlex.split makes of a command the     *)
(* validator has allowed                                                    *)

MaxTokenizePieces == 3

\* a word, a blank, the quote characters, the escape character, an
\* assignment and a quoted argument
TokenizePieces ==
    {<<"l", "s">>,
     <<" ">>,
     <<"'">>,
     <<"\"">>,
     <<"\\">>,
     <<"X", "=", "1">>,
     <<"'", "a", " ", "b", "'">>}

InitTokenize ==
    InitWith(StringsOf(TokenizePieces, MaxTokenizePieces),
             {<<>>, <<ls>>}, {<<>>}, {SandboxRoot}, {TRUE})

NextTokenize ==
    \/ RunBashValidate
    \/ RunBashReject
    \/ RunBashSpawn
    \/ ExecuteValidate
    \/ ExecuteReject
    \/ ExecuteSpawn

SpecTokenize == InitTokenize /\ [][NextTokenize]_vars

\* the executor that was called takes the command for a single command
SingleCommand ==
    \/ called = "run_bash" /\ ~_is_compound_shell_command(command)
    \/ called = "_execute_validated_command" /\ ~AgentIsCompoundShellCommand(command)

\* C30: a command that validate_with_compound_handling has allowed and that
\* the executor takes for a single command is split by shlex.split without
\* error into a non-empty argv; the executor ends with that argv spawned in
\* single mode, never with the parse-failure or the empty-command outcome
AllowedSingleCommandTokenizes ==
    (/\ called \in Executors
     /\ check_result # Unset
     /\ check_result.allowed
     /\ SingleCommand) =>
        /\ shlex_split(command).ok
        /\ shlex_split(command).tokens # <<>>
        /\ pc = "done" =>
              /\ Len(spawns) = 1
              /\ spawns[1].argv = shlex_split(command).tokens
              /\ spawns[1].mode = "single"
              /\ called = "run_bash" =>
                    /\ result # RunBashText("error: command is empty", <<>>)
                    /\ result # RunBashText("error while executing the command: {e}",
                                            "ValueError")
              /\ called = "_execute_validated_command" => result.mode # "invalid"

\* an allowed single command with a quoted argument has been spawned
QuotedArgumentSpawned ==
    /\ called \in Executors
    /\ pc = "done"
    /\ Len(spawns) = 1
    /\ spawns[1].mode = "single"
    /\ spawns[1].argv = <<ls, <<"a", " ", "b">>>>

=============================================================================
